---- MODULE Spec2Model ----
(***************************************************************************)
(* codex-equilibrium: the account pool core.                               *)
(*                                                                         *)
(* The accounts file and the rr-index file (storage.ts), the lifecycle     *)
(* classifiers (utils), sticky selection (selection.ts), token refresh     *)
(* with its in-memory single-flight set (refresh.ts) and the request       *)
(* dispatchers (proxy.ts), as a set of asynchronous tasks that interleave  *)
(* at their awaits.  A task's control point is a stack of labels: the head *)
(* is the await the task is suspended at, the tail the continuations of    *)
(* its callers.  One step of a task is the completion of that await and    *)
(* the synchronous code that follows it, up to the next await.             *)
(*                                                                         *)
(* Times are milliseconds since the epoch, as Date.now() gives them; a     *)
(* stored ISO string is the millisecond value it parses back to            *)
(* (toISOString keeps milliseconds, Date.parse reads them back).           *)
(***************************************************************************)
EXTENDS Integers, Sequences, FiniteSets, TLC

VARIABLES
  tokens,      \* content of auths/codex_tokens.json: the account sequence
  rr,          \* content of auths/rr-index as readRR parses it
  now,         \* Date.now()
  refreshing,  \* refresh.ts: const refreshing = new Set<string>()
  issued,      \* access tokens the identity provider has issued so far
  started,     \* handlers started so far
  marked,      \* per account id: when markFailure last completed for it
  disk,        \* per path under auths/: the chunks the file holds
  task         \* per task: control stack and the locals of its frames

vars == <<tokens, rr, now, refreshing, issued, started, marked, disk, task>>

----------------------------------------------------------------------------
(* Bounds of the model *)

MaxTicks == 3
MaxStarted == 2
MaxInitRR == 4
MaxAccounts == 3
MaxWrites == 3
Chunks == 2
MaxFail == 6
MaxBody == 2
MaxTools == 3
MaxRecords == 2
MaxOps == 4

TickMs == 60 * 60 * 1000
Procs == {1, 2}
Ids == 1..MaxAccounts

None == -1

----------------------------------------------------------------------------
(* types.ts: TokenRecord, the fields the core reads and writes *)

TokenRecord(id, rt, exp, dis) ==
  [ id |-> id, access_token |-> 0, refresh_token |-> rt, expire |-> exp,
    last_refresh |-> None, last_used |-> None, disabled |-> dis,
    cooldown_until |-> None, fail_count |-> 0, last_error_code |-> None ]

NoRec == TokenRecord(0, FALSE, None, FALSE)

At(s, i) == s[i + 1]

RECURSIVE findIndex(_, _, _)
findIndex(s, id, i) ==
  IF i >= Len(s) THEN None
  ELSE IF At(s, i).id = id THEN i
  ELSE findIndex(s, id, i + 1)

----------------------------------------------------------------------------
(* utils: lifecycle classifiers *)

isCoolingDown(rec, t) ==
  IF rec.cooldown_until = None THEN FALSE ELSE rec.cooldown_until > t

isExpired(rec, t) ==
  IF rec.expire = None THEN FALSE ELSE rec.expire <= t

isNearExpiry(expire, thresholdMs, t) ==
  IF expire = None THEN TRUE ELSE expire - t <= thresholdMs

parseExpireSeconds(expires_in, t) ==
  IF expires_in = None \/ expires_in <= 0 THEN None ELSE t + expires_in * 1000

usable(rec, t) ==
  /\ ~rec.disabled
  /\ ~isCoolingDown(rec, t)
  /\ ~isExpired(rec, t)

----------------------------------------------------------------------------
(* refresh.ts: the request-time and the refresh-time cooldown policies *)

Min(a, b) == IF a < b THEN a ELSE b

Pow2(n) == CASE n = 0 -> 1 [] n = 1 -> 2 [] n = 2 -> 4 [] n = 3 -> 8
             [] n = 4 -> 16 [] OTHER -> 32

Retriable == {429, 401, 403, 408, 500, 502, 503, 504}
Transient == {408, 500, 502, 503, 504}

\* Variant: the request-time cooldown follows the per-code policy of a
\* failed refresh.
computeCooldownMsPerCode(code, failCount) ==
  IF code = 429 THEN 30 * 60 * 1000
  ELSE IF code \in {401, 403} THEN 10 * 60 * 1000
  ELSE IF code \in {408, 500, 502, 503, 504}
       THEN Min(30 * 60 * 1000, Pow2(Min(failCount, 5)) * 60 * 1000)
  ELSE 0

\* Variant: a request-time failure earns no cooldown.
computeCooldownMsNone(code, failCount) == 0 * failCount

computeCooldownMs(code, failCount) ==
  IF code \in Retriable THEN 3 * 60 * 60 * 1000 ELSE 0

markFailureRecord(rec, code, t) ==
  LET fc == rec.fail_count + 1
      cooldownMs == computeCooldownMs(code, fc)
  IN [rec EXCEPT !.fail_count = fc,
                 !.last_error_code = code,
                 !.cooldown_until =
                    IF cooldownMs > 0 THEN t + cooldownMs ELSE rec.cooldown_until]

\* Variant: the request-time policy in place of the refresh-time one.
refreshCooldownMsThreeHours(code, fc) ==
  IF code \in {429, 401, 403, 408, 500, 502, 503, 504}
  THEN 3 * 60 * 60 * 1000 ELSE 0 * fc

refreshCooldownMs(code, fc) ==
  IF code = 429 THEN 30 * 60 * 1000
  ELSE IF code \in {401, 403} THEN 10 * 60 * 1000
  ELSE IF code \in Transient
       THEN Min(30 * 60 * 1000, Pow2(Min(fc, 5)) * 60 * 1000)
  ELSE 0

refreshFailRecord(rec, code, t) ==
  LET fc == rec.fail_count + 1
      cooldownMs == refreshCooldownMs(code, fc)
  IN [rec EXCEPT !.fail_count = fc,
                 !.last_error_code = code,
                 !.cooldown_until =
                    IF cooldownMs > 0 THEN t + cooldownMs ELSE rec.cooldown_until]

\* Variant: a successful refresh renews the token and keeps the failure state.
refreshOkKeepsFailure(rec, json, t) ==
  [rec EXCEPT !.access_token =
                 IF json.access_token = None THEN rec.access_token
                 ELSE json.access_token,
              !.expire =
                 IF parseExpireSeconds(json.expires_in, t) = None THEN rec.expire
                 ELSE parseExpireSeconds(json.expires_in, t),
              !.last_refresh = t]

refreshOkRecord(rec, json, t) ==
  [rec EXCEPT !.access_token =
                 IF json.access_token = None THEN rec.access_token
                 ELSE json.access_token,
              !.expire =
                 IF parseExpireSeconds(json.expires_in, t) = None THEN rec.expire
                 ELSE parseExpireSeconds(json.expires_in, t),
              !.last_refresh = t,
              !.fail_count = 0,
              !.last_error_code = None,
              !.cooldown_until = None]

----------------------------------------------------------------------------
(* selection.ts: the cursor as the selectors use it, and their scans *)

\* Variant: the stored cursor is used as it is.
clampStartNone(start, total) == start

clampStart(start, total) ==
  IF start < 0 \/ start >= total THEN 0 ELSE start

RECURSIVE scan(_, _, _, _, _)
scan(toks, start, i, last, t) ==
  IF i > last THEN None
  ELSE IF usable(At(toks, (start + i) % Len(toks)), t)
       THEN (start + i) % Len(toks)
  ELSE scan(toks, start, i + 1, last, t)

\* Variant: the scan of selectNextToken stops one position early.
selectScanShort(toks, start, t) == scan(toks, start, 1, Len(toks) - 2, t)

selectScan(toks, start, t) == scan(toks, start, 1, Len(toks) - 1, t)

\* Variant: the scan of advanceToNextUsableToken starts at the cursor itself.
advanceScanFromCursor(toks, start, t) == scan(toks, start, 0, Len(toks) - 1, t)

advanceScan(toks, start, t) == scan(toks, start, 1, Len(toks), t)

----------------------------------------------------------------------------
(* Tasks *)

NoSel == [rec |-> NoRec, index |-> 0, total |-> 0]

NoJson == [access_token |-> None, expires_in |-> None]

\* A completed markFailure: when it completed and the status it was given.
\* off: a disable of the account has completed and no enable was called
\* since; made: the id is taken; born: the account is in the initial file or
\* its creation has completed; gone: a delete of the id was called.
NoMark ==
  [at |-> None, code |-> None, off |-> FALSE, made |-> FALSE, born |-> FALSE,
   gone |-> FALSE]

NoMarks == [id \in Ids |-> NoMark]

\* A response: its status, the account, status and bearer token of the
\* upstream call that produced it (0 / None for a response the proxy made
\* itself), and what its body is.
NoResp == [status |-> 0, by |-> 0, up |-> 0, tok |-> None, body |-> "none"]

NoUsable503 ==
  [status |-> 503, by |-> 0, up |-> 0, tok |-> None, body |-> "no_usable"]

\* The translator's part of a chat request: the tool names of the payload,
\* the names convertChatCompletionsToResponses put in the upstream request,
\* the tool an upstream function_call named, whether the request streams,
\* and the name the function_call carried downstream.
\* For a stream: the events the upstream sends (src), the bytes of its body
\* not read yet (up), the loop's buf and state.fnIdx (-1: not set), and
\* the chunks enqueued downstream (out).
NoChat ==
  [ stage |-> "none", tools |-> <<>>, sent |-> <<>>, called |-> 0,
    stream |-> FALSE, name |-> <<>>,
    src |-> <<>>, up |-> <<>>, buf |-> <<>>, fnIdx |-> 0 - 1, out |-> <<>> ]

IdleTask ==
  [ pc |-> <<>>, kind |-> "none", chat |-> NoChat,
    snap |-> <<>>, start |-> 0, selAt |-> None, sel |-> NoSel,
    updated |-> NoRec, list |-> <<>>,
    rec |-> NoRec, refreshed |-> NoRec,
    current |-> NoRec, total |-> 0, triedAccounts |-> 0, attempts |-> 0,
    resp |-> NoResp, sw |-> 0, arg |-> 0,
    out |-> NoResp, calls |-> 0, tries |-> 0,
    json |-> NoJson,
    path |-> "none",
    pre |-> [tokens |-> <<>>, rr |-> 0], seen |-> NoMarks, rfSkip |-> 0,
    due |-> {}, sent |-> 0, prev |-> 0, log |-> {} ]

ok(status) == status >= 200 /\ status < 300

Head1(p) == IF task[p].pc = <<>> THEN "idle" ELSE Head(task[p].pc)

Rest(p) == Tail(task[p].pc)

Put(p, tk) == task' = [task EXCEPT ![p] = tk]

----------------------------------------------------------------------------
(* storage.ts: the files.  A file is the sequence of chunks it holds; a   *)
(* chunk names the write it belongs to (write 0 made the initial content)  *)
(* and the file that write was for.  The sections above take a completed   *)
(* write as one step on tokens or rr; atomicWrite is modelled here.         *)

Targets == {"codex_tokens.json", "rr-index"}

Paths == Targets \cup {"codex_tokens.json.tmp", "rr-index.tmp"}

Chunk(path, n) == [of |-> path, id |-> n]

Whole(path, n) == [i \in 1..Chunks |-> Chunk(path, n)]

InitDisk ==
  [path \in Paths |-> IF path \in Targets THEN Whole(path, 0) ELSE <<>>]

\* Variant: the temporary path is the target's own path.
tmpInPlace(filePath) == filePath

\* const tmp = filePath + '.tmp'
tmpPath(filePath) ==
  IF filePath = "codex_tokens.json" THEN "codex_tokens.json.tmp"
  ELSE IF filePath = "rr-index" THEN "rr-index.tmp"
  ELSE filePath

\* Mutex: a lock(fn) runs fn after every fn queued before it has settled.
Locked(filePath) ==
  \E p \in Procs : task[p].path = filePath /\ task[p].pc # <<>>

\* writeTokens(tokens) / writeRR(v): the mutex is taken
StartWrite(p, filePath) ==
  /\ Head1(p) = "idle"
  /\ started < MaxWrites
  /\ ~Locked(filePath)
  /\ started' = started + 1
  /\ Put(p, [IdleTask EXCEPT !.kind = "write", !.path = filePath,
                             !.arg = started + 1,
                             !.pc = <<"aw_ensureAuthDir">>])
  /\ UNCHANGED <<disk, marked, tokens, rr, now, refreshing, issued>>

\* await ensureAuthDir(); fs.writeFile(tmp, content) opens tmp and truncates
AwEnsured(p) ==
  /\ Head1(p) = "aw_ensureAuthDir"
  /\ disk' = [disk EXCEPT ![tmpPath(task[p].path)] = <<>>]
  /\ Put(p, [task[p] EXCEPT !.pc = <<"aw_writeFile">>, !.sw = 0])
  /\ UNCHANGED <<marked, tokens, rr, now, refreshing, issued, started>>

\* fs.writeFile puts the next chunk of content at its offset
AwChunk(p) ==
  /\ Head1(p) = "aw_writeFile"
  /\ task[p].sw < Chunks
  /\ LET tmp == tmpPath(task[p].path)
         k == Min(task[p].sw, Len(disk[tmp]))
     IN disk' = [disk EXCEPT ![tmp] = SubSeq(disk[tmp], 1, k)
                                        \o <<Chunk(task[p].path, task[p].arg)>>]
  /\ Put(p, [task[p] EXCEPT !.sw = @ + 1])
  /\ UNCHANGED <<marked, tokens, rr, now, refreshing, issued, started>>

\* await fs.writeFile(tmp, content) resolves
AwWritten(p) ==
  /\ Head1(p) = "aw_writeFile"
  /\ task[p].sw = Chunks
  /\ Put(p, [task[p] EXCEPT !.pc = <<"aw_rename">>])
  /\ UNCHANGED <<disk, marked, tokens, rr, now, refreshing, issued, started>>

\* await fs.rename(tmp, filePath), and the mutex is released
AwRename(p) ==
  /\ Head1(p) = "aw_rename"
  /\ LET tmp == tmpPath(task[p].path)
     IN disk' = [path \in Paths |->
                   IF path = task[p].path THEN disk[tmp]
                   ELSE IF path = tmp THEN <<>>
                   ELSE disk[path]]
  /\ Put(p, [IdleTask EXCEPT !.kind = "write"])
  /\ UNCHANGED <<marked, tokens, rr, now, refreshing, issued, started>>

\* fs.writeFile or fs.rename rejects: the write throws, the mutex is released
AwError(p) ==
  /\ Head1(p) \in {"aw_writeFile", "aw_rename"}
  /\ Put(p, [IdleTask EXCEPT !.kind = "write_failed"])
  /\ UNCHANGED <<disk, marked, tokens, rr, now, refreshing, issued, started>>

\* The process dies during a write and is started again: what is in memory
\* is lost, the files are as they were.
Crash ==
  /\ \E p \in Procs :
       Head1(p) \in {"aw_ensureAuthDir", "aw_writeFile", "aw_rename"}
  /\ task' = [p \in Procs |-> IdleTask]
  /\ refreshing' = {}
  /\ UNCHANGED <<disk, marked, tokens, rr, now, issued, started>>

AtomicWrite(p) ==
  \/ AwEnsured(p) \/ AwChunk(p) \/ AwWritten(p) \/ AwRename(p) \/ AwError(p)

----------------------------------------------------------------------------
(* storage.ts: updateRecord, a readTokens followed by a writeTokens *)

\* Variant: updateRecord returns without reading or writing.
updateRecordSkipped(tk, updated, rest) == [tk EXCEPT !.pc = rest]

updateRecordCall(tk, updated, rest) ==
  [tk EXCEPT !.updated = updated, !.pc = <<"upd_read">> \o rest]

UpdRead(p) ==
  /\ Head1(p) = "upd_read"
  /\ LET tk == task[p]
         idx == findIndex(tokens, tk.updated.id, 0)
     IN IF idx = None
        THEN Put(p, [tk EXCEPT !.pc = Rest(p), !.updated = NoRec])
        ELSE Put(p, [tk EXCEPT !.pc = <<"upd_write">> \o Rest(p),
                               !.list = [tokens EXCEPT ![idx + 1] = tk.updated]])
  /\ UNCHANGED <<disk, marked, tokens, rr, now, refreshing, issued, started>>

UpdWrite(p) ==
  /\ Head1(p) = "upd_write"
  /\ tokens' = task[p].list
  /\ Put(p, [task[p] EXCEPT !.pc = Rest(p), !.list = <<>>, !.updated = NoRec])
  /\ UNCHANGED <<disk, marked, rr, now, refreshing, issued, started>>

----------------------------------------------------------------------------
(* selection.ts: selectNextToken *)

SelReadTokens(p) ==
  /\ Head1(p) = "sel_readTokens"
  /\ LET tk == task[p]
     IN IF Len(tokens) = 0
        THEN Put(p, [tk EXCEPT !.pc = Rest(p), !.sel = NoSel, !.selAt = now])
        ELSE Put(p, [tk EXCEPT !.pc = <<"sel_readRR">> \o Rest(p),
                               !.snap = tokens, !.seen = marked])
  /\ UNCHANGED <<disk, marked, tokens, rr, now, refreshing, issued, started>>

SelReadRR(p) ==
  /\ Head1(p) = "sel_readRR"
  /\ LET tk == task[p]
         total == Len(tk.snap)
         start == clampStart(rr, total)
         cur == At(tk.snap, start)
         idx == selectScan(tk.snap, start, now)
     IN IF usable(cur, now)
        THEN LET used == [cur EXCEPT !.last_used = now]
             IN Put(p, [updateRecordCall(tk, used, Rest(p))
                          EXCEPT !.start = start, !.selAt = now,
                                 !.sel = [rec |-> used, index |-> start,
                                          total |-> total]])
        ELSE IF idx # None
        THEN Put(p, [tk EXCEPT !.pc = <<"sel_writeRR">> \o Rest(p),
                               !.start = start, !.selAt = now,
                               !.sel = [rec |-> At(tk.snap, idx), index |-> idx,
                                        total |-> total]])
        ELSE Put(p, [tk EXCEPT !.pc = Rest(p),
                               !.start = start, !.selAt = now,
                               !.sel = [rec |-> NoRec, index |-> start % total,
                                        total |-> total]])
  /\ UNCHANGED <<disk, marked, tokens, rr, now, refreshing, issued, started>>

SelWriteRR(p) ==
  /\ Head1(p) = "sel_writeRR"
  /\ rr' = task[p].sel.index
  /\ LET tk == task[p]
         used == [tk.sel.rec EXCEPT !.last_used = now]
     IN Put(p, [updateRecordCall(tk, used, Rest(p)) EXCEPT !.sel.rec = used])
  /\ UNCHANGED <<disk, marked, tokens, now, refreshing, issued, started>>

----------------------------------------------------------------------------
(* selection.ts: advanceToNextUsableToken *)

AdvReadTokens(p) ==
  /\ Head1(p) = "adv_readTokens"
  /\ LET tk == task[p]
     IN IF Len(tokens) = 0
        THEN Put(p, [tk EXCEPT !.pc = Rest(p), !.sel = NoSel, !.selAt = now])
        ELSE Put(p, [tk EXCEPT !.pc = <<"adv_readRR">> \o Rest(p),
                               !.snap = tokens, !.seen = marked])
  /\ UNCHANGED <<disk, marked, tokens, rr, now, refreshing, issued, started>>

AdvReadRR(p) ==
  /\ Head1(p) = "adv_readRR"
  /\ LET tk == task[p]
         total == Len(tk.snap)
         start == clampStart(rr, total)
         idx == advanceScan(tk.snap, start, now)
     IN IF idx # None
        THEN Put(p, [tk EXCEPT !.pc = <<"adv_writeRR">> \o Rest(p),
                               !.start = start, !.selAt = now,
                               !.sel = [rec |-> At(tk.snap, idx), index |-> idx,
                                        total |-> total]])
        ELSE Put(p, [tk EXCEPT !.pc = Rest(p),
                               !.start = start, !.selAt = now,
                               !.sel = [rec |-> NoRec, index |-> start % total,
                                        total |-> total]])
  /\ UNCHANGED <<disk, marked, tokens, rr, now, refreshing, issued, started>>

AdvWriteRR(p) ==
  /\ Head1(p) = "adv_writeRR"
  /\ rr' = task[p].sel.index
  /\ LET tk == task[p]
         used == [tk.sel.rec EXCEPT !.last_used = now]
     IN Put(p, [updateRecordCall(tk, used, Rest(p)) EXCEPT !.sel.rec = used])
  /\ UNCHANGED <<disk, marked, tokens, now, refreshing, issued, started>>

----------------------------------------------------------------------------
(* refresh.ts: refreshToken *)

\* The synchronous head of refreshToken(rec), run by its caller's step: the
\* two early returns, or the add to the in-flight set and the upstream fetch.
\* Variant: refreshToken without the refreshing.has(rec.id) test.
refreshTokenUnguarded(tk, rec, rest) ==
  IF ~rec.refresh_token
  THEN [tk |-> [tk EXCEPT !.refreshed = NoRec, !.pc = rest, !.rfSkip = 0],
        refreshing |-> refreshing]
  ELSE [tk |-> [tk EXCEPT !.rec = rec, !.refreshed = NoRec, !.rfSkip = 0,
                          !.pc = <<"rf_fetch">> \o rest],
        refreshing |-> refreshing \cup {rec.id}]

\* Variant: refreshToken without the test of rec.refresh_token.
refreshTokenAnyAccount(tk, rec, rest) ==
  IF rec.id \in refreshing
  THEN [tk |-> [tk EXCEPT !.refreshed = NoRec, !.pc = rest, !.rfSkip = rec.id],
        refreshing |-> refreshing]
  ELSE [tk |-> [tk EXCEPT !.rec = rec, !.refreshed = NoRec, !.rfSkip = 0,
                          !.pc = <<"rf_fetch">> \o rest],
        refreshing |-> refreshing \cup {rec.id}]

refreshTokenCall(tk, rec, rest) ==
  IF ~rec.refresh_token \/ rec.id \in refreshing
  THEN [tk |-> [tk EXCEPT !.refreshed = NoRec, !.pc = rest,
                          !.rfSkip = IF rec.refresh_token THEN rec.id ELSE 0],
        refreshing |-> refreshing]
  ELSE [tk |-> [tk EXCEPT !.rec = rec, !.refreshed = NoRec, !.rfSkip = 0,
                          !.pc = <<"rf_fetch">> \o rest],
        refreshing |-> refreshing \cup {rec.id}]

\* The token endpoint answers non-2xx: the refresh-time failure record.
RfFetchFail(p, codes) ==
  /\ Head1(p) = "rf_fetch"
  /\ \E code \in codes :
       LET tk == task[p]
           updatedFail == refreshFailRecord(tk.rec, code, now)
       IN Put(p, updateRecordCall(tk, updatedFail, <<"rf_finally">> \o Rest(p)))
  /\ UNCHANGED <<disk, marked, tokens, rr, now, refreshing, issued, started>>

\* The token endpoint answers 2xx with a token set.
RfFetchOk(p, withTokens, expiries) ==
  /\ Head1(p) = "rf_fetch"
  /\ \E withToken \in withTokens, expires_in \in expiries :
       LET tk == task[p]
           json == [access_token |-> IF withToken THEN issued + 1 ELSE None,
                    expires_in |-> expires_in]
           updated == refreshOkRecord(tk.rec, json, now)
       IN /\ Put(p, [updateRecordCall(tk, updated, <<"rf_finally">> \o Rest(p))
                       EXCEPT !.refreshed = updated, !.json = json])
          /\ issued' = IF withToken THEN issued + 1 ELSE issued
  /\ UNCHANGED <<disk, marked, tokens, rr, now, refreshing, started>>

\* The fetch of the token endpoint rejects (a network error): finally runs
\* and the error goes to the caller of refreshToken.
RfFetchThrow(p) ==
  /\ Head1(p) = "rf_fetch"
  /\ refreshing' = refreshing \ {task[p].rec.id}
  /\ Put(p, [task[p] EXCEPT !.pc = <<"rf_thrown">> \o Rest(p), !.rec = NoRec])
  /\ UNCHANGED <<disk, marked, tokens, rr, now, issued, started>>

\* RfFinally without the finally block.
RfFinallyKeeps(p) ==
  /\ Head1(p) = "rf_finally"
  /\ refreshing' = refreshing
  /\ Put(p, [task[p] EXCEPT !.pc = Rest(p), !.rec = NoRec, !.json = NoJson])
  /\ UNCHANGED <<disk, marked, tokens, now, rr, issued, started>>

\* finally { refreshing.delete(rec.id) } and the return to the caller.
RfFinally(p) ==
  /\ Head1(p) = "rf_finally"
  /\ refreshing' = refreshing \ {task[p].rec.id}
  /\ Put(p, [task[p] EXCEPT !.pc = Rest(p), !.rec = NoRec, !.json = NoJson])
  /\ UNCHANGED <<disk, marked, tokens, rr, now, issued, started>>

----------------------------------------------------------------------------
(* proxy.ts: what the caller gets *)

\* /v1/chat/completions, non-stream, reads the body forwardResponses returned,
\* converts it and answers with status 200; with stream it returns a non-2xx
\* response as it is and rewrites the events of a 2xx one.
\* convertResponsesBlobToChat finds a response.completed event in a 2xx
\* upstream body; in any other text it finds none, and convertChatToCompletions
\* makes of its {"error":"invalid_upstream_response"} a completion with no text.
convertBody(r) ==
  IF r.body = "upstream" /\ ok(r.status) THEN "completion"
  ELSE "empty_completion"

Respond(kind, r) ==
  IF kind = "chat" THEN [r EXCEPT !.status = 200, !.body = convertBody(r)]
  ELSE IF kind = "chatstream" /\ ok(r.status)
       THEN [r EXCEPT !.body = "completion_chunks"]
  ELSE r

\* resp stays as the last upstream response the handler observed.
Finish(tk, r) ==
  [IdleTask EXCEPT !.kind = tk.kind, !.out = Respond(tk.kind, r),
                   !.calls = tk.calls, !.arg = tk.arg, !.resp = tk.resp]

Upstream(tk, s) ==
  [status |-> s, by |-> tk.current.id, up |-> s,
   tok |-> tk.current.access_token, body |-> "upstream"]

markFailureCall(tk, rec, code, rest) ==
  updateRecordCall(tk, markFailureRecord(rec, code, now), rest)

ForgetSel(tk) ==
  [tk EXCEPT !.snap = <<>>, !.sel = NoSel, !.selAt = None, !.start = 0,
             !.seen = NoMarks]

----------------------------------------------------------------------------
(* proxy.ts: forwardResponses and the /v1/* fall-through *)

\* const { rec: first, total } = await selectNextToken()
DFirst(p) ==
  /\ Head1(p) = "d_first"
  /\ LET tk == task[p]
     IN IF tk.sel.rec = NoRec
        THEN Put(p, Finish(tk, NoUsable503))
        ELSE Put(p, ForgetSel([tk EXCEPT !.pc = <<"d_fetch1">>,
                                         !.current = tk.sel.rec,
                                         !.total = tk.sel.total,
                                         !.triedAccounts = 0]))
  /\ UNCHANGED <<disk, marked, tokens, rr, now, refreshing, issued, started>>

\* resp = await tryOnce(current), first attempt of a loop iteration
DFetch1(p, statuses) ==
  /\ Head1(p) = "d_fetch1"
  /\ \E s \in statuses :
       LET tk0 == task[p]
           r == Upstream(tk0, s)
           tk == [tk0 EXCEPT !.resp = r, !.calls = @ + 1, !.tries = 1]
           call == refreshTokenCall(tk, tk.current, <<"d_refreshed">>)
       IN IF ok(s)
          THEN Put(p, Finish(tk, r)) /\ UNCHANGED refreshing
          ELSE IF tk.kind = "fallthrough"
          THEN IF s \notin Retriable
               THEN Put(p, Finish(tk, r)) /\ UNCHANGED refreshing
               ELSE Put(p, [tk EXCEPT !.pc = <<"d_fetch2">>])
                    /\ UNCHANGED refreshing
          ELSE IF s \in Transient
               THEN Put(p, [tk EXCEPT !.pc = <<"d_fetch2">>])
                    /\ UNCHANGED refreshing
               ELSE IF s \notin Retriable
               THEN Put(p, Finish(tk, r)) /\ UNCHANGED refreshing
               ELSE Put(p, call.tk) /\ refreshing' = call.refreshing
  /\ UNCHANGED <<disk, marked, tokens, rr, now, issued, started>>

\* resp = await tryOnce(current), the retry on the same account
DFetch2(p, statuses) ==
  /\ Head1(p) = "d_fetch2"
  /\ \E s \in statuses :
       LET tk0 == task[p]
           r == Upstream(tk0, s)
           tk == [tk0 EXCEPT !.resp = r, !.calls = @ + 1, !.tries = @ + 1]
           call == refreshTokenCall(tk, tk.current, <<"d_refreshed">>)
       IN IF ok(s)
          THEN Put(p, Finish(tk, r)) /\ UNCHANGED refreshing
          ELSE IF tk.kind # "fallthrough" /\ s \notin Retriable
          THEN Put(p, Finish(tk, r)) /\ UNCHANGED refreshing
          ELSE Put(p, call.tk) /\ refreshing' = call.refreshing
  /\ UNCHANGED <<disk, marked, tokens, rr, now, issued, started>>

\* Variant: the renewed account is not taken as current.
DRefreshedKeepsCurrent(p) ==
  /\ Head1(p) = "d_refreshed"
  /\ LET tk == task[p]
     IN IF tk.refreshed # NoRec
        THEN Put(p, [tk EXCEPT !.pc = <<"d_fetch3">>, !.refreshed = NoRec])
        ELSE Put(p, markFailureCall(tk, tk.current, tk.resp.status,
                                    <<"d_marked">>))
  /\ UNCHANGED <<disk, marked, tokens, rr, now, refreshing, issued, started>>

\* const refreshed = await refreshToken(current)
DRefreshed(p) ==
  /\ Head1(p) = "d_refreshed"
  /\ LET tk == task[p]
     IN IF tk.refreshed # NoRec
        THEN Put(p, [tk EXCEPT !.pc = <<"d_fetch3">>, !.current = tk.refreshed,
                               !.refreshed = NoRec])
        ELSE Put(p, markFailureCall(tk, tk.current, tk.resp.status,
                                    <<"d_marked">>))
  /\ UNCHANGED <<disk, marked, tokens, rr, now, refreshing, issued, started>>

\* resp = await tryOnce(current), the attempt with the renewed account
DFetch3(p, statuses) ==
  /\ Head1(p) = "d_fetch3"
  /\ \E s \in statuses :
       LET tk0 == task[p]
           r == Upstream(tk0, s)
           tk == [tk0 EXCEPT !.resp = r, !.calls = @ + 1, !.tries = @ + 1]
       IN IF ok(s)
          THEN Put(p, Finish(tk, r))
          ELSE Put(p, markFailureCall(tk, tk.current, s, <<"d_marked">>))
  /\ UNCHANGED <<disk, marked, tokens, rr, now, refreshing, issued, started>>

\* await markFailure(current, resp.status); triedAccounts++;
\* then the call of advanceToNextUsableToken
DMarked(p) ==
  /\ Head1(p) = "d_marked"
  /\ Put(p, [task[p] EXCEPT !.pc = <<"adv_readTokens", "d_advanced">>,
                            !.triedAccounts = @ + 1])
  /\ marked' = [marked EXCEPT ![task[p].current.id].at = now,
                              ![task[p].current.id].code = task[p].resp.status]
  /\ UNCHANGED <<disk, tokens, rr, now, refreshing, issued, started>>

\* Variant: the loop goes on as long as advance finds an account.
DAdvancedNoBound(p) ==
  /\ Head1(p) = "d_advanced"
  /\ LET tk == task[p]
     IN IF tk.sel.rec = NoRec
        THEN Put(p, Finish(tk, tk.resp))
        ELSE Put(p, ForgetSel([tk EXCEPT !.pc = <<"d_fetch1">>,
                                         !.current = tk.sel.rec,
                                         !.tries = 0]))
  /\ UNCHANGED <<disk, marked, tokens, rr, now, refreshing, issued, started>>

\* const sel = await advanceToNextUsableToken(), and the loop test
DAdvanced(p) ==
  /\ Head1(p) = "d_advanced"
  /\ LET tk == task[p]
         total == IF tk.total = 0 THEN 1 ELSE tk.total
     IN IF tk.sel.rec = NoRec
        THEN Put(p, Finish(tk, tk.resp))
        ELSE IF tk.triedAccounts < total
        THEN Put(p, ForgetSel([tk EXCEPT !.pc = <<"d_fetch1">>,
                                         !.current = tk.sel.rec,
                                         !.tries = 0]))
        ELSE Put(p, Finish(tk, NoUsable503))
  /\ UNCHANGED <<disk, marked, tokens, rr, now, refreshing, issued, started>>

----------------------------------------------------------------------------
(* proxy.ts: robustResponsesStreamFetch, behind /v1/chat/completions with *)
(* stream                                                                  *)

StreamRetriable == {429, 403, 408, 500, 502, 503, 504}

\* the loop test, and the return of resp when it fails
rsLoop(tk) ==
  IF tk.attempts < tk.total /\ tk.resp.status \in StreamRetriable
  THEN markFailureCall(tk, tk.current, tk.resp.status, <<"rs_marked">>)
  ELSE Finish(tk, tk.resp)

\* const { rec: first, total } = await selectNextToken();
\* maxAttempts = Math.min(total, 3) || 1, kept in total
RsFirst(p) ==
  /\ Head1(p) = "rs_first"
  /\ LET tk == task[p]
         m == Min(tk.sel.total, 3)
     IN IF tk.sel.rec = NoRec
        THEN Put(p, Finish(tk, NoUsable503))
        ELSE Put(p, ForgetSel([tk EXCEPT !.pc = <<"rs_fetch1">>,
                                         !.current = tk.sel.rec,
                                         !.total = IF m = 0 THEN 1 ELSE m]))
  /\ UNCHANGED <<disk, marked, tokens, rr, now, refreshing, issued, started>>

\* let resp = await tryOnce(current)
RsFetch1(p, statuses) ==
  /\ Head1(p) = "rs_fetch1"
  /\ \E s \in statuses :
       LET tk0 == task[p]
           r == Upstream(tk0, s)
           tk == [tk0 EXCEPT !.resp = r, !.calls = @ + 1, !.tries = 1,
                             !.attempts = 1]
           call == refreshTokenCall(tk, tk.current, <<"rs_refreshed">>)
       IN IF s \in {401, 403}
          THEN Put(p, call.tk) /\ refreshing' = call.refreshing
          ELSE Put(p, rsLoop(tk)) /\ UNCHANGED refreshing
  /\ UNCHANGED <<disk, marked, tokens, rr, now, issued, started>>

\* const refreshed = await refreshToken(current)
RsRefreshed(p) ==
  /\ Head1(p) = "rs_refreshed"
  /\ LET tk == task[p]
     IN IF tk.refreshed # NoRec
        THEN Put(p, [tk EXCEPT !.pc = <<"rs_fetch2">>, !.current = tk.refreshed,
                               !.refreshed = NoRec])
        ELSE Put(p, rsLoop(tk))
  /\ UNCHANGED <<disk, marked, tokens, rr, now, refreshing, issued, started>>

\* resp = await tryOnce(current), with the renewed account
RsFetch2(p, statuses) ==
  /\ Head1(p) = "rs_fetch2"
  /\ \E s \in statuses :
       LET tk0 == task[p]
           tk == [tk0 EXCEPT !.resp = Upstream(tk0, s), !.calls = @ + 1,
                             !.tries = @ + 1]
       IN Put(p, rsLoop(tk))
  /\ UNCHANGED <<disk, marked, tokens, rr, now, refreshing, issued, started>>

\* await markFailure(current, resp.status); const sel = await selectNextToken()
RsMarked(p) ==
  /\ Head1(p) = "rs_marked"
  /\ Put(p, [task[p] EXCEPT !.pc = <<"sel_readTokens", "rs_selected">>])
  /\ marked' = [marked EXCEPT ![task[p].current.id].at = now,
                              ![task[p].current.id].code = task[p].resp.status]
  /\ UNCHANGED <<disk, tokens, rr, now, refreshing, issued, started>>

RsSelected(p) ==
  /\ Head1(p) = "rs_selected"
  /\ LET tk == task[p]
     IN IF tk.sel.rec = NoRec
        THEN Put(p, Finish(tk, tk.resp))
        ELSE Put(p, ForgetSel([tk EXCEPT !.pc = <<"rs_fetch3">>,
                                         !.current = tk.sel.rec,
                                         !.tries = 0]))
  /\ UNCHANGED <<disk, marked, tokens, rr, now, refreshing, issued, started>>

\* resp = await tryOnce(current); attempts++
RsFetch3(p, statuses) ==
  /\ Head1(p) = "rs_fetch3"
  /\ \E s \in statuses :
       LET tk0 == task[p]
           tk == [tk0 EXCEPT !.resp = Upstream(tk0, s), !.calls = @ + 1,
                             !.tries = 1, !.attempts = @ + 1]
       IN Put(p, rsLoop(tk))
  /\ UNCHANGED <<disk, marked, tokens, rr, now, refreshing, issued, started>>

----------------------------------------------------------------------------
(* proxy.ts: the routes *)

Routes == {"responses", "chat", "chatstream", "fallthrough"}

Entry(kind) ==
  IF kind = "chatstream" THEN <<"sel_readTokens", "rs_first">>
  ELSE <<"sel_readTokens", "d_first">>

StartRequest(p, kinds) ==
  /\ Head1(p) = "idle"
  /\ started < MaxStarted
  /\ started' = started + 1
  /\ \E kind \in kinds :
       Put(p, [IdleTask EXCEPT !.kind = kind, !.pc = Entry(kind)])
  /\ UNCHANGED <<disk, marked, tokens, rr, now, refreshing, issued>>

Dispatch(p, statuses) ==
  \/ DFirst(p) \/ DFetch1(p, statuses) \/ DFetch2(p, statuses)
  \/ DRefreshed(p) \/ DFetch3(p, statuses) \/ DMarked(p) \/ DAdvanced(p)

Robust(p, statuses) ==
  \/ RsFirst(p) \/ RsFetch1(p, statuses) \/ RsRefreshed(p)
  \/ RsFetch2(p, statuses) \/ RsMarked(p) \/ RsSelected(p)
  \/ RsFetch3(p, statuses)

Select(p) == SelReadTokens(p) \/ SelReadRR(p) \/ SelWriteRR(p)

Advance(p) == AdvReadTokens(p) \/ AdvReadRR(p) \/ AdvWriteRR(p)

Update(p) == UpdRead(p) \/ UpdWrite(p)

----------------------------------------------------------------------------
(* proxy.ts: the body of a 2xx response.  forwardResponses and the /v1/*   *)
(* fall-through return new Response(resp.body), the streaming chat route a *)
(* ReadableStream whose start() reads resp.body to its end; the handler    *)
(* has returned, what remains is the copy of the upstream body.            *)

\* the response has been returned: its body starts to flow
BodyStart(p) ==
  /\ Head1(p) = "idle"
  /\ task[p].kind \in {"responses", "chatstream", "fallthrough"}
  /\ ok(task[p].out.status)
  /\ task[p].out.by # 0
  /\ Put(p, [task[p] EXCEPT !.pc = <<"streaming">>, !.sent = 0])
  /\ UNCHANGED <<disk, marked, tokens, rr, now, refreshing, issued, started>>

\* a chunk of the upstream body is passed on
BodyChunk(p) ==
  /\ Head1(p) = "streaming"
  /\ task[p].sent < MaxBody
  /\ Put(p, [task[p] EXCEPT !.sent = @ + 1])
  /\ UNCHANGED <<disk, marked, tokens, rr, now, refreshing, issued, started>>

\* the upstream body ends: done, controller.close()
BodyEnd(p) ==
  /\ Head1(p) = "streaming"
  /\ Put(p, [task[p] EXCEPT !.pc = <<"closed">>])
  /\ UNCHANGED <<disk, marked, tokens, rr, now, refreshing, issued, started>>

\* Variant: a failure of the upstream body starts the request again.
BodyFailRetries(p) ==
  /\ Head1(p) = "streaming"
  /\ Put(p, [task[p] EXCEPT !.pc = Entry(task[p].kind)])
  /\ UNCHANGED <<disk, marked, tokens, rr, now, refreshing, issued, started>>

\* the upstream body fails: the read rejects and the downstream body is
\* errored
BodyFail(p) ==
  /\ Head1(p) = "streaming"
  /\ Put(p, [task[p] EXCEPT !.pc = <<"errored">>])
  /\ UNCHANGED <<disk, marked, tokens, rr, now, refreshing, issued, started>>

Body(p) == BodyStart(p) \/ BodyChunk(p) \/ BodyEnd(p) \/ BodyFail(p)

----------------------------------------------------------------------------
(* routes/accounts.ts: POST /accounts/:id/refresh *)

StartForceRefresh(p, ids) ==
  /\ Head1(p) = "idle"
  /\ started < MaxStarted
  /\ started' = started + 1
  /\ \E id \in ids :
       Put(p, [IdleTask EXCEPT !.kind = "force_refresh", !.arg = id,
                               !.pc = <<"fr_read">>])
  /\ UNCHANGED <<disk, marked, tokens, rr, now, refreshing, issued>>

\* const tokens = await readTokens(); const rec = tokens.find(...);
\* then the call of refreshToken(rec)
FrRead(p) ==
  /\ Head1(p) = "fr_read"
  /\ LET tk == task[p]
         idx == findIndex(tokens, tk.arg, 0)
         call == refreshTokenCall(tk, At(tokens, idx), <<"fr_done">>)
     IN IF idx = None
        THEN /\ Put(p, Finish(tk, [status |-> 404, by |-> 0, up |-> 0,
                                   tok |-> None, body |-> "not found"]))
             /\ UNCHANGED refreshing
        ELSE Put(p, call.tk) /\ refreshing' = call.refreshing
  /\ UNCHANGED <<disk, marked, tokens, rr, now, issued, started>>

FrDone(p) ==
  /\ Head1(p) = "fr_done"
  /\ LET tk == task[p]
     IN IF tk.refreshed = NoRec
        THEN Put(p, Finish(tk, [status |-> 500, by |-> 0, up |-> 0,
                                tok |-> None, body |-> "refresh_failed"]))
        ELSE Put(p, Finish(tk, [status |-> 200, by |-> tk.refreshed.id, up |-> 0,
                                tok |-> None, body |-> "ok"]))
  /\ UNCHANGED <<disk, marked, tokens, rr, now, refreshing, issued, started>>

ForceRefresh(p) == FrRead(p) \/ FrDone(p)

----------------------------------------------------------------------------
(* routes/accounts.ts: disable / enable, delete, import / relay, activate; *)
(* routes/oauth.ts: the store of the callback                              *)

Json(status, body) ==
  [status |-> status, by |-> 0, up |-> 0, tok |-> None, body |-> body]

\* POST /accounts/:id/disable, POST /accounts/:id/enable
StartEnable(p, ids, kinds) ==
  /\ Head1(p) = "idle"
  /\ started < MaxStarted
  /\ started' = started + 1
  /\ \E id \in ids, kind \in kinds :
       /\ Put(p, [IdleTask EXCEPT !.kind = kind, !.arg = id,
                                  !.pc = <<"en_read">>])
       /\ marked' = IF kind = "enable"
                    THEN [marked EXCEPT ![id].off = FALSE]
                    ELSE marked
  /\ UNCHANGED <<disk, tokens, rr, now, refreshing, issued>>

\* const tokens = await readTokens(); const rec = tokens.find(...);
\* rec.disabled = ...; then the call of updateRecord(rec)
EnRead(p) ==
  /\ Head1(p) = "en_read"
  /\ LET tk == task[p]
         idx == findIndex(tokens, tk.arg, 0)
     IN IF idx = None
        THEN Put(p, Finish(tk, Json(404, "not found")))
        ELSE Put(p, updateRecordCall(tk,
                      [At(tokens, idx) EXCEPT !.disabled = (tk.kind = "disable")],
                      <<"en_done">>))
  /\ UNCHANGED <<disk, marked, tokens, rr, now, refreshing, issued, started>>

\* return c.json({ ok: true })
EnDone(p) ==
  /\ Head1(p) = "en_done"
  /\ Put(p, Finish(task[p], Json(200, "ok")))
  /\ marked' = IF task[p].kind = "disable"
               THEN [marked EXCEPT ![task[p].arg].off = TRUE]
               ELSE marked
  /\ UNCHANGED <<disk, tokens, rr, now, refreshing, issued, started>>

Enable(p) == EnRead(p) \/ EnDone(p)

\* DELETE /accounts/:id, the call of removeRecord(id)
StartDelete(p, ids) ==
  /\ Head1(p) = "idle"
  /\ started < MaxStarted
  /\ started' = started + 1
  /\ \E id \in ids :
       /\ Put(p, [IdleTask EXCEPT !.kind = "delete", !.arg = id,
                                  !.pc = <<"rm_read">>])
       /\ marked' = [marked EXCEPT ![id].gone = TRUE]
  /\ UNCHANGED <<disk, tokens, rr, now, refreshing, issued>>

\* const list = await readTokens(); const next = list.filter(...)
RmRead(p) ==
  /\ Head1(p) = "rm_read"
  /\ Put(p, [task[p] EXCEPT !.pc = <<"rm_write">>,
                            !.list = SelectSeq(tokens,
                                       LAMBDA t : t.id # task[p].arg)])
  /\ UNCHANGED <<disk, marked, tokens, rr, now, refreshing, issued, started>>

\* await writeTokens(next); return c.json({ ok: true })
RmWrite(p) ==
  /\ Head1(p) = "rm_write"
  /\ tokens' = task[p].list
  /\ Put(p, Finish([task[p] EXCEPT !.list = <<>>], Json(200, "ok")))
  /\ UNCHANGED <<disk, marked, rr, now, refreshing, issued, started>>

Delete(p) == RmRead(p) \/ RmWrite(p)

\* the record a creation builds: an OAuth account (import, callback) or a
\* relay account, which has no refresh_token and no expire
NewRecord(kind, id, t) ==
  IF kind = "relay"
  THEN TokenRecord(id, FALSE, None, FALSE)
  ELSE [TokenRecord(id, TRUE, parseExpireSeconds(3600, t), FALSE)
          EXCEPT !.last_refresh = t]

\* POST /accounts/import, POST /accounts/relay, GET /auth/callback: the
\* record is built with a fresh id (randomUUID)
StartCreate(p, kinds) ==
  /\ Head1(p) = "idle"
  /\ started < MaxStarted
  /\ started' = started + 1
  /\ \E id \in Ids, kind \in kinds :
       /\ ~marked[id].made
       /\ \A j \in Ids : j < id => marked[j].made
       /\ Put(p, [IdleTask EXCEPT !.kind = kind, !.arg = id,
                                  !.rec = NewRecord(kind, id, now),
                                  !.pc = <<"cr_read">>])
       /\ marked' = [marked EXCEPT ![id].made = TRUE]
  /\ UNCHANGED <<disk, tokens, rr, now, refreshing, issued>>

\* Variant: the new record is put first (tokens.unshift(rec)).
CrReadUnshift(p) ==
  /\ Head1(p) = "cr_read"
  /\ Put(p, [task[p] EXCEPT !.pc = <<"cr_write">>,
                            !.list = <<task[p].rec>> \o tokens])
  /\ UNCHANGED <<disk, marked, tokens, rr, now, refreshing, issued, started>>

\* const tokens = await readTokens(); tokens.push(rec)
CrRead(p) ==
  /\ Head1(p) = "cr_read"
  /\ Put(p, [task[p] EXCEPT !.pc = <<"cr_write">>,
                            !.list = Append(tokens, task[p].rec)])
  /\ UNCHANGED <<disk, marked, tokens, rr, now, refreshing, issued, started>>

\* await writeTokens(tokens); return c.json({ ok: true, id: rec.id })
CrWrite(p) ==
  /\ Head1(p) = "cr_write"
  /\ tokens' = task[p].list
  /\ Put(p, Finish([task[p] EXCEPT !.list = <<>>], Json(200, "ok")))
  /\ marked' = [marked EXCEPT ![task[p].arg].born = TRUE]
  /\ UNCHANGED <<disk, rr, now, refreshing, issued, started>>

Create(p) == CrRead(p) \/ CrWrite(p)

\* POST /accounts/:id/activate
StartActivate(p, ids) ==
  /\ Head1(p) = "idle"
  /\ started < MaxStarted
  /\ started' = started + 1
  /\ \E id \in ids :
       Put(p, [IdleTask EXCEPT !.kind = "activate", !.arg = id,
                               !.pc = <<"ac_read">>])
  /\ UNCHANGED <<disk, marked, tokens, rr, now, refreshing, issued>>

\* const tokens = await readTokens(); const idx = tokens.findIndex(...)
AcRead(p) ==
  /\ Head1(p) = "ac_read"
  /\ LET tk == task[p]
         idx == findIndex(tokens, tk.arg, 0)
     IN IF idx = None
        THEN Put(p, Finish(tk, Json(404, "not_found")))
        ELSE Put(p, [tk EXCEPT !.pc = <<"ac_write">>, !.start = idx,
                               !.total = Len(tokens)])
  /\ UNCHANGED <<disk, marked, tokens, rr, now, refreshing, issued, started>>

\* await writeRR(idx); return c.json({ ok: true, index: idx })
AcWrite(p) ==
  /\ Head1(p) = "ac_write"
  /\ rr' = task[p].start
  /\ Put(p, [Finish(task[p], Json(200, "ok")) EXCEPT !.start = task[p].start,
                                                     !.total = task[p].total])
  /\ UNCHANGED <<disk, marked, tokens, now, refreshing, issued, started>>

Activate(p) == AcRead(p) \/ AcWrite(p)

----------------------------------------------------------------------------
(* storage.ts: I/O errors.  readTokens answers [] when the file cannot be  *)
(* read or parsed; a failing writeTokens rejects and leaves the file.       *)

\* updateRecord: readTokens failed, so the id is not found and nothing is
\* written
UpdReadFail(p) ==
  /\ Head1(p) = "upd_read"
  /\ LET tk == task[p]
         idx == findIndex(<<>>, tk.updated.id, 0)
     IN IF idx = None
        THEN Put(p, [tk EXCEPT !.pc = Rest(p), !.updated = NoRec])
        ELSE Put(p, [tk EXCEPT !.pc = <<"upd_write">> \o Rest(p)])
  /\ UNCHANGED <<disk, marked, tokens, rr, now, refreshing, issued, started>>

\* removeRecord: readTokens failed, the list to filter is []
RmReadFail(p) ==
  /\ Head1(p) = "rm_read"
  /\ Put(p, [task[p] EXCEPT !.pc = <<"rm_write">>,
                            !.list = SelectSeq(<<>>,
                                       LAMBDA t : t.id # task[p].arg)])
  /\ UNCHANGED <<disk, marked, tokens, rr, now, refreshing, issued, started>>

\* import / relay add: readTokens failed, the record is pushed on []
CrReadFail(p) ==
  /\ Head1(p) = "cr_read"
  /\ Put(p, [task[p] EXCEPT !.pc = <<"cr_write">>,
                            !.list = Append(<<>>, task[p].rec)])
  /\ UNCHANGED <<disk, marked, tokens, rr, now, refreshing, issued, started>>

\* writeTokens rejects: the error leaves the handler, the file is as it was
WriteFail(p) ==
  /\ Head1(p) \in {"upd_write", "rm_write", "cr_write"}
  /\ Put(p, Finish(task[p], Json(500, "internal_error")))
  /\ UNCHANGED <<disk, marked, tokens, rr, now, refreshing, issued, started>>

----------------------------------------------------------------------------
(* refresh.ts: refreshDueTokens, the periodic sweep *)

NearMs == 10 * 60 * 1000

\* the next record of list, from position i on, the loop calls refreshToken on
RECURSIVE nextDue(_, _, _)
nextDue(list, i, t) ==
  IF i >= Len(list) THEN None
  ELSE IF ~At(list, i).disabled /\ isNearExpiry(At(list, i).expire, NearMs, t)
       THEN i
  ELSE nextDue(list, i + 1, t)

\* refreshDueTokens has returned: the timer callback goes on to
\* scheduleNextRefresh(), as index.ts does after the run at startup
Rearmed == [NoResp EXCEPT !.body = "rearmed"]

\* the loop from position i on: up to the next call of refreshToken
\* due collects the ids the run has called refreshToken with.
sweepLoop(tk, i) ==
  LET j == nextDue(tk.snap, i, now)
  IN IF j = None
     THEN [tk |-> Finish(tk, Rearmed), refreshing |-> refreshing]
     ELSE refreshTokenCall([tk EXCEPT !.sw = j,
                                      !.due = @ \cup {At(tk.snap, j).id}],
                           At(tk.snap, j), <<"sw_next">>)

StartSweep(p) ==
  /\ Head1(p) = "idle"
  /\ started < MaxStarted
  /\ started' = started + 1
  /\ Put(p, [IdleTask EXCEPT !.kind = "sweep", !.pc = <<"sw_read">>])
  /\ UNCHANGED <<disk, marked, tokens, rr, now, refreshing, issued>>

\* const list = await readTokens()
SwRead(p) ==
  /\ Head1(p) = "sw_read"
  /\ LET call == sweepLoop([task[p] EXCEPT !.snap = tokens], 0)
     IN Put(p, call.tk) /\ refreshing' = call.refreshing
  /\ UNCHANGED <<disk, marked, tokens, rr, now, issued, started>>

\* await refreshToken(rec) returned: the next iteration
SwNext(p) ==
  /\ Head1(p) = "sw_next"
  /\ LET call == sweepLoop(task[p], task[p].sw + 1)
     IN Put(p, call.tk) /\ refreshing' = call.refreshing
  /\ UNCHANGED <<disk, marked, tokens, rr, now, issued, started>>

\* catch {}: an error thrown inside the loop ends the run
SwCaught(p) ==
  /\ Head1(p) = "rf_thrown"
  /\ Rest(p) = <<"sw_next">>
  /\ Put(p, Finish(task[p], Rearmed))
  /\ UNCHANGED <<disk, marked, tokens, rr, now, refreshing, issued, started>>

Sweep(p) == SwRead(p) \/ SwNext(p)

----------------------------------------------------------------------------
(* The clock: it is read between handlers *)

Tick ==
  /\ now < MaxTicks * TickMs
  /\ \A p \in Procs : Head1(p) = "idle"
  /\ now' = now + TickMs
  /\ UNCHANGED <<disk, marked, tokens, rr, refreshing, issued, started, task>>

----------------------------------------------------------------------------
(* Accounts of the initial stores: one imported without a refresh token,   *)
(* one from the OAuth flow whose access token expires in five minutes, one  *)
(* an operator has disabled                                                 *)

Soon == 5 * 60 * 1000

Plain(id) == TokenRecord(id, FALSE, None, FALSE)
OAuth(id) == TokenRecord(id, TRUE, Soon, FALSE)
Disabled(id) == TokenRecord(id, FALSE, None, TRUE)

----------------------------------------------------------------------------
(* Spec: the pool under concurrency.  Two tasks run up to MaxStarted        *)
(* handlers (requests on /v1/responses, forced refreshes, sweeps) on a pool *)
(* of two accounts; the clock advances between handlers.                    *)

PoolStatuses == {200, 429}

PoolStores ==
  { <<a, b>> : a \in {Plain(1), OAuth(1)}, b \in {Plain(2), Disabled(2)} }

Init ==
  /\ tokens \in PoolStores
  /\ rr = 0
  /\ now = 0
  /\ refreshing = {}
  /\ issued = 0
  /\ started = 0
  /\ marked = NoMarks
  /\ disk = InitDisk
  /\ task = [p \in Procs |-> IdleTask]

Step(p) ==
  \/ StartRequest(p, {"responses"})
  \/ StartForceRefresh(p, {1})
  \/ StartSweep(p)
  \/ Select(p) \/ Advance(p) \/ Update(p)
  \/ RfFetchFail(p, {401}) \/ RfFetchOk(p, {TRUE}, {3600}) \/ RfFinally(p)
  \/ DFirst(p) \/ DFetch1(p, PoolStatuses) \/ DRefreshed(p)
  \/ DFetch3(p, PoolStatuses) \/ DMarked(p) \/ DAdvanced(p)
  \/ ForceRefresh(p) \/ Sweep(p)

Next == (\E p \in Procs : Step(p)) \/ Tick

Spec == Init /\ [][Next]_vars

SomeUsable(toks, t) == \E i \in 1..Len(toks) : usable(toks[i], t)

\* idx is the first usable position in the order c+1, c+2, ..., c+N modulo N
FirstUsableAfter(toks, c, idx, t) ==
  \E k \in 1..Len(toks) :
    /\ idx = (c + k) % Len(toks)
    /\ usable(At(toks, idx), t)
    /\ \A j \in 1..(k - 1) : ~usable(At(toks, (c + j) % Len(toks)), t)

ThreeHours == 3 * 60 * 60 * 1000

Present(id) == findIndex(tokens, id, 0) # None

\* The record the accounts file holds for id, NoRec when it holds none.
Stored(id) ==
  IF findIndex(tokens, id, 0) = None THEN NoRec
  ELSE At(tokens, findIndex(tokens, id, 0))

\* The continuations of a select or an advance: the caller has its result.
Selected(p) ==
  /\ Head1(p) \in {"d_first", "d_advanced", "rs_first", "rs_selected"}
  /\ task[p].sel.rec # NoRec

\* C4: once markFailure has completed for account a with a retriable status
\* at time t, the stored cooldown_until of a is at least t + 3 hours, and no
\* select or advance that starts afterwards returns a before t + 3 hours.
C4_CooldownThreeHours ==
  /\ \A p \in Procs :
       (Head1(p) = "d_marked" /\ task[p].resp.status \in Retriable) =>
         /\ Stored(task[p].current.id).cooldown_until # None
         /\ Stored(task[p].current.id).cooldown_until >= now + ThreeHours
  /\ \A p \in Procs :
       Selected(p) =>
         LET m == task[p].seen[task[p].sel.rec.id]
         IN (m.at # None /\ m.code \in Retriable) =>
              task[p].selAt >= m.at + ThreeHours

\* A refresh of id is running in task p, from its fetch to its finally.
InRefresh(p, id) ==
  /\ \E i \in 1..Len(task[p].pc) : task[p].pc[i] \in {"rf_fetch", "rf_finally"}
  /\ task[p].rec.id = id

SingleFlight ==
  /\ \A p, q \in Procs, id \in Ids :
       (InRefresh(p, id) /\ InRefresh(q, id)) => p = q
  /\ refreshing = {id \in Ids : \E p \in Procs : InRefresh(p, id)}

\* A step in which a task calls refreshToken for an id that is in flight.
SkippedRefresh(p) == task[p].rfSkip = 0 /\ task'[p].rfSkip # 0

NoRenewedNoIO(p) ==
  /\ task'[p].refreshed = NoRec
  /\ "rf_fetch" # (IF task'[p].pc = <<>> THEN "idle" ELSE Head(task'[p].pc))
  /\ task'[p].rfSkip \in refreshing
  /\ UNCHANGED <<tokens, rr, refreshing, issued>>

\* C5: at any instant at most one refresh is in flight for an account id,
\* and a call of refreshToken that starts while one is in flight for the id
\* returns no renewed account, issues no upstream call and writes nothing.
C5_SingleFlight ==
  /\ []SingleFlight
  /\ [][\A p \in Procs : SkippedRefresh(p) => NoRenewedNoIO(p)]_vars

C5_Witness ==
  \E p, q \in Procs :
    /\ p # q
    /\ Head1(p) = "rf_fetch"
    /\ task[q].rfSkip = task[p].rec.id
    /\ task[q].kind # task[p].kind

\* The step in which a successful refresh writes the accounts file.
PersistsRefresh(p) ==
  /\ Head1(p) = "upd_write"
  /\ Len(task[p].pc) > 1
  /\ task[p].pc[2] = "rf_finally"
  /\ task[p].refreshed # NoRec
  /\ task'[p].pc = Rest(p)

\* C6: when a successful refresh of a persists, the stored record of a has
\* fail_count 0, no cooldown_until and no last_error_code, last_refresh now
\* and the access token the token endpoint returned, and it is the record
\* refreshToken returns.
C6_RefreshSuccess ==
  [][\A p \in Procs :
       PersistsRefresh(p) =>
         LET a == task[p].rec.id
             r == At(tokens', findIndex(tokens', a, 0))
         IN /\ findIndex(tokens', a, 0) # None
            /\ r.fail_count = 0
            /\ r.cooldown_until = None
            /\ r.last_error_code = None
            /\ r.last_refresh = now
            /\ r.access_token = task[p].json.access_token
            /\ r = task'[p].refreshed]_vars

C6_Witness ==
  \E p \in Procs :
    /\ Head1(p) = "rf_finally"
    /\ task[p].refreshed # NoRec
    /\ task[p].rec.fail_count > 0
    /\ task[p].rec.cooldown_until # None
    /\ Stored(task[p].rec.id) = task[p].refreshed
    /\ Stored(task[p].rec.id).cooldown_until = None

\* The record task p passes to refreshToken, if its step calls it.
RefreshArg(p) ==
  LET tk == task[p]
  IN CASE Head1(p) = "fr_read" -> Stored(tk.arg)
       [] Head1(p) = "sw_read" ->
            IF nextDue(tokens, 0, now) = None THEN NoRec
            ELSE At(tokens, nextDue(tokens, 0, now))
       [] Head1(p) = "sw_next" ->
            IF nextDue(tk.snap, tk.sw + 1, now) = None THEN NoRec
            ELSE At(tk.snap, nextDue(tk.snap, tk.sw + 1, now))
       [] Head1(p) \in {"d_fetch1", "d_fetch2"} -> tk.current
       [] OTHER -> NoRec

\* C19: no refresh is ever in flight for an account without a refresh_token,
\* and a step of the dispatcher, the sweep or the force-refresh endpoint that
\* has such an account to refresh ends with no renewed account and no fetch
\* of the token endpoint started, the accounts file and the in-flight set
\* as they were.
C19_NoRefreshWithoutToken ==
  /\ [](/\ \A p \in Procs, id \in Ids :
             InRefresh(p, id) => task[p].rec.refresh_token
        /\ \A id \in refreshing : Stored(id).refresh_token)
  /\ [][\A p \in Procs :
          (/\ RefreshArg(p) # NoRec
           /\ ~RefreshArg(p).refresh_token
           /\ task'[p] # task[p]) =>
             /\ task'[p].refreshed = NoRec
             /\ \A i \in 1..Len(task'[p].pc) :
                   task'[p].pc[i] \notin {"rf_fetch", "rf_finally"}
             /\ UNCHANGED <<tokens, refreshing, issued>>]_vars

\* the force-refresh endpoint got no renewed account for an account without
\* a refresh_token
C19_Witness ==
  \E p \in Procs :
    /\ Head1(p) = "fr_done"
    /\ Present(task[p].arg)
    /\ ~Stored(task[p].arg).refresh_token
    /\ task[p].refreshed = NoRec
    /\ task[p].arg \notin refreshing

\* C14: updates of different accounts do not undo each other: the write of
\* an update of account a leaves the stored record of every other account
\* as it is, whatever was written since that update read the file.
C14_UpdateSerialized ==
  [][\A p \in Procs :
       (Head1(p) = "upd_write" /\ task'[p] # task[p]) =>
          /\ Len(tokens') = Len(tokens)
          /\ \A i \in 1..Len(tokens) :
                tokens[i].id # task[p].updated.id => tokens'[i] = tokens[i]]_vars

----------------------------------------------------------------------------
(* SpecDispatch: one request, on any route, against any of the initial    *)
(* stores, the upstream answering each call with any of the statuses       *)

DispatchStatuses == {200, 404, 401, 429, 500}

DispatchStores ==
  { <<>> } \cup
  { <<a, b, c>> : a \in {Plain(1), OAuth(1), Disabled(1)},
                  b \in {Plain(2), OAuth(2), Disabled(2)},
                  c \in {Plain(3), OAuth(3), Disabled(3)} }

InitDispatch ==
  /\ tokens \in DispatchStores
  /\ rr \in {0, 2}
  /\ now = 0
  /\ refreshing = {}
  /\ issued = 0
  /\ started = 0
  /\ marked = NoMarks
  /\ disk = InitDisk
  /\ task = [p \in Procs |-> IdleTask]

StartOnly(p, kinds) ==
  /\ started = 0
  /\ StartRequest(p, kinds)

NextDispatch ==
  \/ StartOnly(1, Routes)
  \/ Select(1) \/ Advance(1) \/ Update(1)
  \/ RfFetchFail(1, {401}) \/ RfFetchOk(1, {TRUE}, {3600}) \/ RfFinally(1)
  \/ Dispatch(1, DispatchStatuses)
  \/ Robust(1, DispatchStatuses)

SpecDispatch == InitDispatch /\ [][NextDispatch]_vars

\* The request of task 1 has been answered.
Answered == Head1(1) = "idle" /\ task[1].kind \in Routes

\* C8: on every route, a request whose first select found no usable account
\* is answered 503 "No usable accounts (all disabled, cooling down or
\* expired)" without an upstream call.  (A request is answered without an
\* upstream call only from the empty branch after its first select.)
C8_NoUsable503 ==
  (Answered /\ task[1].calls = 0) =>
     /\ task[1].out.status = 503
     /\ task[1].out.body = "no_usable"

C10_RetryOnceFirst ==
  (task[1].kind \in {"responses", "fallthrough"}
     /\ \E i \in 1..Len(task[1].pc) : task[1].pc[i] = "d_refreshed")
    => task[1].tries = 2

\* the write task p is about to make records a failure: markFailure's
\* record, or the record of a refresh the token endpoint refused
FailureWrite(p) ==
  /\ Head1(p) = "upd_write"
  /\ Rest(p) # <<>>
  /\ \/ Head(Rest(p)) \in {"d_marked", "rs_marked"}
     \/ Head(Rest(p)) = "rf_finally" /\ task[p].json = NoJson

\* C39: recording one failure on an account, at refresh time or at request
\* time, adds exactly one to the account's stored fail_count.
C39_FailCountCounts ==
  [][\A p \in Procs :
       (FailureWrite(p) /\ task'[p].pc = Rest(p)) =>
          \A id \in {task[p].updated.id} :
             Stored(id)'.fail_count = Stored(id).fail_count + 1]_vars

\* C38: in a request, the account a markFailure is followed by (the one
\* advanceToNextUsableToken or selectNextToken returns and the request is
\* sent to next) is none of the accounts the request has marked.
C38_MarkedNotChosenAgain ==
  [][( /\ Head1(1) \in {"d_advanced", "rs_selected"}
       /\ task'[1].pc # <<>>
       /\ Head(task'[1].pc) \in {"d_fetch1", "rs_fetch3"} )
     => marked[task'[1].current.id].at = None]_vars

\* A handler is inside markFailure, or has just returned from it.
Marking(p) ==
  \E i \in 1..Len(task[p].pc) : task[p].pc[i] \in {"d_marked", "rs_marked"}

\* C11: after a refresh renewed the current account with token X, the next
\* attempt of the request goes to the same account with X; the stored
\* account then has access_token X, the new expire, fail_count 0 and no
\* cooldown_until, and the cursor is at that account still; a 2xx answer to
\* that attempt is what the caller gets.
C11_RefreshOn401 ==
  /\ [](Head1(1) = "d_fetch3" =>
          LET tk == task[1]
          IN /\ tk.current.id = tk.resp.by
             /\ tk.current.access_token = issued
             /\ issued > 0
             /\ Stored(tk.current.id) = tk.current
             /\ tk.current.expire = now + 3600 * 1000
             /\ tk.current.fail_count = 0
             /\ tk.current.cooldown_until = None
             /\ At(tokens, rr).id = tk.current.id)
  /\ [][(Head1(1) = "d_fetch3" /\ Answered') =>
          /\ ok(task'[1].out.up)
          /\ ok(task'[1].out.status)
          /\ task'[1].out.by = task[1].current.id
          /\ task'[1].out.tok = task[1].current.access_token
          /\ tokens' = tokens
          /\ rr' = rr]_vars

C11_Witness ==
  /\ Answered
  /\ task[1].kind = "responses"
  /\ task[1].calls = 2
  /\ task[1].out.status = 200
  /\ task[1].out.by = 1
  /\ task[1].out.tok = 1
  /\ Stored(1).access_token = 1
  /\ Stored(1).fail_count = 0
  /\ rr = 0

\* C12: a failing status outside the retriable set ends the request at the
\* attempt it is observed at (no handler goes on after it, so none marks a
\* failure or moves the cursor for it), and the caller gets that status.
C12_NonRetriableForwarded ==
  LET tk == task[1]
  IN /\ (Head1(1) # "idle" /\ tk.resp.up # 0 /\ ~ok(tk.resp.up))
          => tk.resp.up \in Retriable
     /\ Marking(1) => tk.resp.status \in Retriable
     /\ (Answered /\ tk.resp.up # 0 /\ ~ok(tk.resp.up)
           /\ tk.resp.up \notin Retriable)
          => (tk.out.status = tk.resp.up /\ tk.out.by = tk.resp.by)

\* C13: a request that made an upstream call and got no 2xx is answered with
\* the last upstream response it observed, status included.
C13_LastResponseForwarded ==
  (Answered /\ task[1].calls > 0 /\ ~ok(task[1].resp.up)) =>
     /\ task[1].out.up = task[1].resp.up
     /\ task[1].out.by = task[1].resp.by
     /\ task[1].out.status = task[1].resp.status
     /\ task[1].out.body = "upstream"

\* C21: a streaming chat request makes at most min(total, 3) upstream
\* calls, total being the number of stored accounts.
C21_StreamAttemptsCapped ==
  (Answered /\ task[1].kind = "chatstream") =>
     task[1].calls <= Min(Len(tokens), 3)

\* C22 as stated: a failure marked by the streaming chat path sets the
\* cooldown of a failed refresh (30 min on 429, 10 min on 401/403, the
\* backoff on 408/5xx); one marked by the other paths sets 3 hours.
C22_PoliciesPerPath ==
  LET tk == task[1]
      new == Stored(tk.current.id)
  IN /\ Head1(1) = "rs_marked" =>
          new.cooldown_until =
            now + refreshCooldownMs(tk.resp.status, new.fail_count)
     /\ (Head1(1) = "d_marked" /\ tk.resp.status \in Retriable) =>
          new.cooldown_until = now + ThreeHours

\* C22: a failure marked by any request path, the streaming chat path
\* included, sets cooldown_until to now + 3 hours, fail_count one more and
\* last_error_code to the status.
C22_ThreeHoursOnEveryPath ==
  LET tk == task[1]
      new == Stored(tk.current.id)
  IN (Head1(1) \in {"rs_marked", "d_marked"} /\ tk.resp.status \in Retriable)
       => /\ new.cooldown_until = now + ThreeHours
          /\ new.fail_count = tk.current.fail_count + 1
          /\ new.last_error_code = tk.resp.status

C22_Witness ==
  /\ task[1].kind = "chatstream"
  /\ Head1(1) = "rs_marked"
  /\ task[1].resp.status = 429
  /\ Stored(task[1].current.id).cooldown_until = now + ThreeHours

\* C23: on every route, a failing response with a status of the retriable
\* set is returned to the caller only when no stored account is usable or
\* the attempts of the request are used up.
C23_RetriableRotates ==
  (Answered /\ task[1].out.up \in Retriable) =>
     \/ ~SomeUsable(tokens, now)
     \/ task[1].calls >= Min(Len(tokens), 3)

\* C30: a non-streaming chat request whose dispatcher returned a body with
\* no response.completed event (an upstream response that is not 2xx, or
\* the 503 of an empty selection) is answered with the payload
\* {"error":"invalid_upstream_response"}.
C30_MalformedTranslation ==
  (Answered /\ task[1].kind = "chat" /\ ~ok(task[1].out.up)) =>
     task[1].out.body = "invalid_upstream_response"

----------------------------------------------------------------------------
(* SpecResponses: one request on /v1/responses whose upstream calls, token *)
(* endpoint calls and store operations all return: a step that can be      *)
(* taken is taken.                                                          *)

NextResponses ==
  \/ StartOnly(1, {"responses"})
  \/ Select(1) \/ Advance(1) \/ Update(1)
  \/ RfFetchFail(1, {401}) \/ RfFetchOk(1, {TRUE}, {3600}) \/ RfFinally(1)
  \/ Dispatch(1, DispatchStatuses)

SpecResponses ==
  InitDispatch /\ [][NextResponses]_vars /\ WF_vars(NextResponses)

\* The request of task 1 is in the loop of forwardResponses.
InLoop ==
  \E i \in 1..Len(task[1].pc) :
     task[1].pc[i] \in {"d_fetch1", "d_fetch2", "d_refreshed", "d_fetch3",
                        "d_marked", "d_advanced"}

\* total || 1
LoopBound == IF task[1].total = 0 THEN 1 ELSE task[1].total

\* C32: a request on /v1/responses is answered; its loop runs at most
\* max(total, 1) iterations, with at most 3 upstream calls and one refresh
\* in each, and marks at most max(total, 1) failures, total being the number
\* of accounts at the first select.
C32_ResponsesTerminates ==
  /\ [](InLoop =>
          /\ task[1].triedAccounts <= LoopBound
          /\ task[1].tries <= 3
          /\ task[1].calls <= 3 * task[1].triedAccounts + task[1].tries
          /\ Head1(1) \in {"d_fetch1", "d_fetch2", "d_refreshed", "d_fetch3"}
               => task[1].triedAccounts < LoopBound)
  /\ [][ /\ (Head1(1) # "rf_fetch" /\ Head1(1)' = "rf_fetch")
              => Head1(1) \in {"d_fetch1", "d_fetch2"}
         /\ Head1(1) \in {"d_refreshed", "d_fetch3"}
              => Head1(1)' \notin {"d_fetch1", "d_fetch2", "rf_fetch"}
         /\ Head1(1) = "d_fetch1" => Head1(1)' # "d_fetch1" ]_vars
  /\ (task[1].kind = "responses" /\ Head1(1) # "idle") ~> Answered

C32_Witness ==
  /\ Answered
  /\ task[1].kind = "responses"
  /\ task[1].calls = 9
  /\ task[1].out.status = 503

----------------------------------------------------------------------------
(* SpecSticky: two concurrent requests on /v1/responses over three healthy *)
(* accounts, the cursor on the first.                                      *)

StickyStatuses == {200, 429}

InitSticky ==
  /\ tokens = <<Plain(1), Plain(2), Plain(3)>>
  /\ rr = 0
  /\ now = 0
  /\ refreshing = {}
  /\ issued = 0
  /\ started = 0
  /\ marked = NoMarks
  /\ disk = InitDisk
  /\ task = [p \in Procs |-> IdleTask]

StepSticky(p) ==
  \/ StartRequest(p, {"responses"})
  \/ Select(p) \/ Advance(p) \/ Update(p)
  \/ DFirst(p) \/ DFetch1(p, StickyStatuses) \/ DRefreshed(p)
  \/ DMarked(p) \/ DAdvanced(p)

NextSticky == \E p \in Procs : StepSticky(p)

SpecSticky == InitSticky /\ [][NextSticky]_vars

\* C33: in every interleaving, a step that moves the cursor leaves an
\* account that is unusable at that moment, or is the advance of a request
\* that has just marked a failure on that very account.
C33_StickyUntilFailure ==
  [][rr' # rr =>
       \E p \in Procs :
         /\ task'[p] # task[p]
         /\ LET a == At(tokens, clampStart(rr, Len(tokens)))
            IN \/ ~usable(a, now)
               \/ /\ Head1(p) = "adv_writeRR"
                  /\ task[p].current.id = a.id]_vars

----------------------------------------------------------------------------
(* SpecStream: one request on a route that passes the upstream body on,    *)
(* followed to the end of the body.                                        *)

StreamStatuses == {200, 401, 429}

NextStream ==
  \/ StartOnly(1, {"responses", "chatstream", "fallthrough"})
  \/ Select(1) \/ Advance(1) \/ Update(1)
  \/ RfFetchFail(1, {401}) \/ RfFetchOk(1, {TRUE}, {3600}) \/ RfFinally(1)
  \/ Dispatch(1, StreamStatuses)
  \/ Robust(1, StreamStatuses)
  \/ Body(1)

SpecStream == InitDispatch /\ [][NextStream]_vars

\* C26: while the body of a 2xx response flows, and when it ends or fails,
\* the request makes no upstream call, no refresh, no failure mark, no write
\* of the accounts file or the cursor; the body goes on, ends, or is errored,
\* and the request does nothing afterwards.
C26_NoRetryMidStream ==
  /\ [](Head1(1) \in {"streaming", "closed", "errored"} =>
          /\ ok(task[1].out.up)
          /\ task[1].resp = [task[1].out EXCEPT !.body = "upstream"])
  /\ [][Head1(1) \in {"streaming", "closed", "errored"} =>
          /\ task'[1].pc \in {<<"streaming">>, <<"closed">>, <<"errored">>}
          /\ Head1(1) # "streaming" => task'[1] = task[1]
          /\ task'[1].calls = task[1].calls
          /\ task'[1].out = task[1].out
          /\ UNCHANGED <<tokens, rr, refreshing, issued, marked>>]_vars

\* the upstream body failed after a chunk was passed on, for a request that
\* had rotated to its second account
C26_Witness ==
  /\ Head1(1) = "errored"
  /\ task[1].sent = 1
  /\ task[1].calls = 2
  /\ task[1].out.by = 2

----------------------------------------------------------------------------
(* SpecManage: the management endpoints next to requests.  Two tasks run   *)
(* up to MaxStarted handlers (requests on /v1/responses, disable, enable,  *)
(* delete, import, relay add, activate) on a pool of two accounts.         *)

ManageStatuses == {200, 429}

ManageStores == { <<a, Plain(2)>> : a \in {Plain(1), OAuth(1)} }

InitManage ==
  /\ tokens \in ManageStores
  /\ rr \in {0, 1}
  /\ now = 0
  /\ refreshing = {}
  /\ issued = 0
  /\ started = 0
  /\ marked = [id \in Ids |->
                 [NoMark EXCEPT !.made = (id \in {1, 2}),
                                !.born = (id \in {1, 2})]]
  /\ disk = InitDisk
  /\ task = [p \in Procs |-> IdleTask]

StepManage(p) ==
  \/ StartRequest(p, {"responses"})
  \/ StartEnable(p, {1}, {"disable", "enable"})
  \/ StartDelete(p, {1, 2})
  \/ StartCreate(p, {"import", "relay"})
  \/ StartActivate(p, {1, 2})
  \/ Select(p) \/ Advance(p) \/ Update(p)
  \/ RfFetchFail(p, {401}) \/ RfFetchOk(p, {TRUE}, {3600}) \/ RfFinally(p)
  \/ DFirst(p) \/ DFetch1(p, ManageStatuses) \/ DRefreshed(p)
  \/ DFetch3(p, ManageStatuses) \/ DMarked(p) \/ DAdvanced(p)
  \/ Enable(p) \/ Delete(p) \/ Create(p) \/ Activate(p)

NextManage == \E p \in Procs : StepManage(p)

SpecManage == InitManage /\ [][NextManage]_vars

\* C15: once a disable of an account has completed, and until enable is
\* called for it, the stored account is disabled and no select or advance
\* that reads the accounts file afterwards returns it.
C15_DisabledStays ==
  /\ \A id \in Ids :
       (marked[id].off /\ Present(id)) => Stored(id).disabled
  /\ \A p \in Procs :
       Selected(p) => ~task[p].seen[task[p].sel.rec.id].off

\* C16: every account that is in the initial file or whose creation has
\* completed, and whose id no delete was called with, is in the accounts
\* file.
C16_DestroyedOnlyByDelete ==
  \A id \in Ids : (marked[id].born /\ ~marked[id].gone) => Present(id)

\* C36: once a DELETE of an account has completed and the accounts file
\* does not hold the account, no step of any handler puts it back.
C36_DeletedStaysDeleted ==
  [][\A id \in Ids :
       ( /\ marked[id].gone
         /\ ~Present(id)
         /\ \A p \in Procs :
              ~(task[p].kind = "delete" /\ task[p].arg = id
                  /\ task[p].pc # <<>>) )
       => ~Present(id)']_vars

\* C17 as stated: the stored cursor is a position of the stored sequence, or
\* 0 when the sequence is empty.
C17_CursorInRange ==
  IF Len(tokens) = 0 THEN rr = 0 ELSE rr \in 0..(Len(tokens) - 1)

\* C17: the stored cursor is never negative; the position select and advance
\* start from (the stored cursor, or 0 when that is not a position of the
\* sequence) is a position of the sequence; and every cursor value select,
\* advance and activate write is a position of the sequence the call read.
C17_CursorClamped ==
  /\ rr >= 0
  /\ Len(tokens) > 0 => clampStart(rr, Len(tokens)) \in 0..(Len(tokens) - 1)
  /\ \A p \in Procs :
       /\ Head1(p) \in {"sel_writeRR", "adv_writeRR"} =>
            /\ task[p].start \in 0..(Len(task[p].snap) - 1)
            /\ task[p].sel.index \in 0..(Len(task[p].snap) - 1)
            /\ At(task[p].snap, task[p].sel.index).id = task[p].sel.rec.id
       /\ Head1(p) = "ac_write" => task[p].start \in 0..(task[p].total - 1)

\* a delete has left the cursor beyond the sequence, and a select made
\* afterwards has started from position 0
C17_Witness ==
  /\ marked[2].gone
  /\ Len(tokens) = 1
  /\ rr = 1
  /\ \E p \in Procs :
       /\ Head1(p) = "d_first"
       /\ task[p].sel.total = 1
       /\ task[p].sel.index = 0
       /\ task[p].sel.rec.id = 1

\* C24: a management endpoint that finds no account with the id it was
\* called with answers 404 {"error":"not found"} at once, the accounts file
\* and the cursor as they were.
C24_NotFound ==
  [][\A p \in Procs :
       (/\ Head1(p) \in {"rm_read", "en_read", "ac_read", "fr_read"}
        /\ ~Present(task[p].arg)
        /\ task'[p] # task[p]) =>
          /\ task'[p].pc = <<>>
          /\ task'[p].out.status = 404
          /\ task'[p].out.body = "not found"
          /\ UNCHANGED <<tokens, rr>>]_vars

----------------------------------------------------------------------------
(* SpecOrder: the calls of SpecManage, also on a store of one account, so  *)
(* that two accounts can be created, one after the other or concurrently.  *)

OrderStores == ManageStores \cup { <<OAuth(1)>>, <<Plain(1)>> }

InitOrder ==
  /\ tokens \in OrderStores
  /\ rr \in {0, 1}
  /\ now = 0
  /\ refreshing = {}
  /\ issued = 0
  /\ started = 0
  /\ marked = [id \in Ids |->
                 [NoMark EXCEPT !.made = (id <= Len(tokens)),
                                !.born = (id <= Len(tokens))]]
  /\ disk = InitDisk
  /\ task = [p \in Procs |-> IdleTask]

SpecOrder == InitOrder /\ [][NextManage]_vars

\* the position of account id in the accounts file, None when it is absent
Pos(id) == findIndex(tokens, id, 0)

\* C40: no write of the accounts file changes the relative order of two
\* accounts that are in the file before and after it, and the write that
\* stores a new account for the first time stores it last.
C40_OrderKept ==
  [][ /\ \A a, b \in Ids :
           ( /\ Pos(a) # None /\ Pos(b) # None
             /\ Pos(a)' # None /\ Pos(b)' # None
             /\ Pos(a) < Pos(b) ) => Pos(a)' < Pos(b)'
      /\ \A id \in Ids :
           (~marked[id].born /\ marked'[id].born) =>
              Pos(id)' = Len(tokens') - 1 ]_vars

\* two accounts have been created on a store of one, and both are stored
\* behind it in the order of their writes' snapshots
C40_Witness ==
  /\ marked[2].born /\ marked[3].born
  /\ \A p \in Procs : task[p].kind \in {"import", "relay"} /\ task[p].pc = <<>>
  /\ Pos(1) = 0 /\ Pos(2) = 1 /\ Pos(3) = 2

----------------------------------------------------------------------------
(* SpecIO: up to MaxStarted management calls, one after the other, on a    *)
(* pool of two accounts, where any read and any write of the accounts file *)
(* can fail.                                                               *)

InitIO == InitManage

NextIO ==
  \/ StartEnable(1, {1}, {"disable", "enable"})
  \/ StartDelete(1, {1, 2})
  \/ StartCreate(1, {"import", "relay"})
  \/ Enable(1) \/ Delete(1) \/ Create(1) \/ Update(1)
  \/ UpdReadFail(1) \/ RmReadFail(1) \/ CrReadFail(1) \/ WriteFail(1)

SpecIO == InitIO /\ [][NextIO]_vars

\* C25: whatever read or write fails, every account in the accounts file
\* stays in it unchanged, but for the account the call in progress deletes,
\* disables or enables.
C25_IOErrorKeepsAccounts ==
  [][\A id \in Ids :
       Present(id) =>
          \/ Present(id)' /\ Stored(id)' = Stored(id)
          \/ task[1].arg = id /\ task[1].kind = "delete"
          \/ /\ task[1].arg = id /\ task[1].kind \in {"disable", "enable"}
             /\ Present(id)'
             /\ Stored(id)' =
                  [Stored(id) EXCEPT !.disabled = (task[1].kind = "disable")]
    ]_vars

----------------------------------------------------------------------------
(* SpecSweep: runs of refreshDueTokens (the run at startup and the timer's *)
(* runs can overlap) on three accounts; the token endpoint answers 2xx,    *)
(* 401, or the fetch fails.                                                *)

Far(id) == TokenRecord(id, TRUE, TickMs, FALSE)

SweepStores ==
  { <<a, b, c>> : a \in {OAuth(1), Plain(1)}, b \in {OAuth(2), Disabled(2)},
                  c \in {OAuth(3), Far(3)} }

InitSweep ==
  /\ tokens \in SweepStores
  /\ rr = 0
  /\ now = 0
  /\ refreshing = {}
  /\ issued = 0
  /\ started = 0
  /\ marked = NoMarks
  /\ disk = InitDisk
  /\ task = [p \in Procs |-> IdleTask]

StepSweep(p) ==
  \/ StartSweep(p)
  \/ SwRead(p) \/ SwNext(p) \/ SwCaught(p)
  \/ RfFetchFail(p, {401}) \/ RfFetchOk(p, {TRUE}, {3600}) \/ RfFetchThrow(p)
  \/ RfFinally(p)
  \/ Update(p)

NextSweep == \E p \in Procs : StepSweep(p)

SpecSweep == InitSweep /\ [][NextSweep]_vars

\* the ids of list a run is to call refreshToken with
DueIds(list) ==
  { list[i].id : i \in { j \in 1..Len(list) :
       ~list[j].disabled /\ isNearExpiry(list[j].expire, NearMs, now) } }

\* C18: when a run of the sweep ends, it has called refresh for every
\* non-disabled account of its snapshot that is near expiry, whatever the
\* refreshes before answered (non-2xx or a rejected fetch), and the sweep is
\* armed again.
C18_SweepAbsorbsFailures ==
  [][\A p \in Procs :
       (task[p].kind = "sweep" /\ Head1(p) # "idle" /\ task'[p].pc = <<>>) =>
          LET snap == IF Head1(p) = "sw_read" THEN tokens ELSE task[p].snap
          IN /\ task[p].due = DueIds(snap)
             /\ task'[p].out.body = "rearmed"]_vars

\* the OAuth accounts of list the sweep is to renew: not disabled, with a
\* refresh token, expire within 10 minutes or past
NearIds(list) ==
  { list[i].id : i \in { j \in 1..Len(list) :
       /\ ~list[j].disabled
       /\ list[j].refresh_token
       /\ isNearExpiry(list[j].expire, NearMs, now) } }

\* C31: a run of the sweep calls refresh for every non-disabled account of
\* its snapshot that has a refresh token and whose expire is within 10
\* minutes or past; when such a refresh succeeds with expires_in E the
\* stored expire becomes now + E and the account is usable, no request
\* having selected it; and a run calls refresh for no account whose expire
\* is more than 10 minutes ahead.
C31_NearExpirySweep ==
  [][\A p \in Procs :
       task[p].kind = "sweep" =>
         /\ (Head1(p) # "idle" /\ task'[p].pc = <<>>) =>
              LET snap == IF Head1(p) = "sw_read" THEN tokens ELSE task[p].snap
              IN NearIds(snap) \subseteq task[p].due
         /\ (Head1(p) = "upd_write" /\ task[p].json # NoJson
               /\ task'[p].pc = Rest(p)) =>
              \A id \in {task[p].updated.id} :
                 /\ Stored(id)'.expire = now + task[p].json.expires_in * 1000
                 /\ usable(Stored(id)', now)
                 /\ Stored(id)'.last_used = Stored(id).last_used
         /\ (task'[p].kind = "sweep" /\ Head1(p) \in {"sw_read", "sw_next"}) =>
              \A id \in task'[p].due \ task[p].due :
                \E i \in 1..Len(task'[p].snap) :
                  /\ task'[p].snap[i].id = id
                  /\ isNearExpiry(task'[p].snap[i].expire, NearMs, now)]_vars

----------------------------------------------------------------------------
(* SpecInFlight: the runs of SpecSweep where, besides the fetch, the store *)
(* can fail under refreshToken: readTokens answers [] and writeTokens      *)
(* rejects.                                                                *)

\* await updateRecord(...) rejects inside refreshToken's try: finally runs
\* and the error goes to the caller of refreshToken.  updated stays as the
\* record that was not written.
RfStoreThrow(p) ==
  /\ Head1(p) = "upd_write"
  /\ Rest(p) # <<>>
  /\ Head(Rest(p)) = "rf_finally"
  /\ refreshing' = refreshing \ {task[p].rec.id}
  /\ Put(p, [task[p] EXCEPT !.pc = <<"rf_thrown">> \o Tail(Rest(p)),
                            !.rec = NoRec, !.json = NoJson,
                            !.refreshed = NoRec])
  /\ UNCHANGED <<disk, marked, tokens, rr, now, issued, started>>

NextInFlight ==
  \E p \in Procs : StepSweep(p) \/ UpdReadFail(p) \/ RfStoreThrow(p)

SpecInFlight == InitSweep /\ [][NextInFlight]_vars

\* C37: the in-flight set holds an id exactly while a refreshToken call for
\* it is between its add and its finally; the step that ends the call, by a
\* return or by a thrown error, takes the id out; and a call that returns
\* because the id is in flight does so while another task's call is running.
C37_InFlightExactly ==
  /\ [](\A id \in Ids : id \in refreshing <=> \E p \in Procs : InRefresh(p, id))
  /\ [][\A p \in Procs, id \in Ids :
          (InRefresh(p, id) /\ ~InRefresh(p, id)') => id \notin refreshing']_vars
  /\ [][\A p \in Procs :
          SkippedRefresh(p) =>
            \E q \in Procs \ {p} : InRefresh(q, task'[p].rfSkip)]_vars

\* a refresh of an id ended by a rejected write, and a later refresh of the
\* same id is at its fetch
C37_Witness ==
  \E p, q \in Procs :
     /\ Head1(p) = "rf_thrown"
     /\ task[p].updated # NoRec
     /\ Head1(q) = "rf_fetch"
     /\ InRefresh(q, task[p].updated.id)

----------------------------------------------------------------------------
(* SpecStore: up to MaxWrites writes of the accounts file and the cursor   *)
(* file, each of which may fail at any step, and crashes of the process     *)

InitStore ==
  /\ tokens = <<>>
  /\ rr = 0
  /\ now = 0
  /\ refreshing = {}
  /\ issued = 0
  /\ started = 0
  /\ marked = NoMarks
  /\ disk = InitDisk
  /\ task = [p \in Procs |-> IdleTask]

NextStore ==
  \/ \E p \in Procs, filePath \in Targets : StartWrite(p, filePath)
  \/ \E p \in Procs : AtomicWrite(p)
  \/ Crash

SpecStore == InitStore /\ [][NextStore]_vars

\* The file holds all the chunks of one write made for it.
Complete(path) ==
  /\ Len(disk[path]) = Chunks
  /\ \A i \in 1..Chunks : disk[path][i] = disk[path][1]
  /\ disk[path][1].of = path
  /\ disk[path][1].id \in 0..started

\* C7: at every instant, after a crash or a write error at any step
\* included, the accounts file and the cursor file each hold the complete
\* content of one write (or the initial content), never a part or a mix.
C7_WriteAtomicity == \A path \in Targets : Complete(path)

C7_Witness ==
  /\ \A p \in Procs : Head1(p) = "idle" /\ task[p].kind = "none"
  /\ disk["codex_tokens.json"] = Whole("codex_tokens.json", 1)
  /\ Len(disk["codex_tokens.json.tmp"]) = 1
  /\ disk["codex_tokens.json.tmp"][1].id = 2
  /\ disk["rr-index"] = Whole("rr-index", 0)
  /\ disk["rr-index.tmp"] = Whole("rr-index", 3)

----------------------------------------------------------------------------
(* SpecSelect: one call of selectNextToken or advanceToNextUsableToken on  *)
(* any store of up to MaxAccounts accounts and any content of the cursor   *)
(* file (removeRecord leaves the cursor file as it is, so a stored cursor  *)
(* may lie beyond the end of the sequence).  pre is the store at the call. *)

T0 == TickMs

SelectTemplates(id) ==
  { TokenRecord(id, FALSE, None, FALSE),
    TokenRecord(id, FALSE, None, TRUE),
    [TokenRecord(id, FALSE, None, FALSE) EXCEPT !.cooldown_until = T0 + 1],
    [TokenRecord(id, FALSE, None, FALSE) EXCEPT !.cooldown_until = T0],
    TokenRecord(id, TRUE, T0, FALSE),
    TokenRecord(id, TRUE, T0 + 1, FALSE) }

SelectStores ==
  UNION { { st \in [1..n -> UNION {SelectTemplates(i) : i \in 1..n}] :
              \A i \in 1..n : st[i].id = i } : n \in 0..MaxAccounts }

InitSelect ==
  /\ tokens \in SelectStores
  /\ rr \in 0..MaxInitRR
  /\ now = T0
  /\ refreshing = {}
  /\ issued = 0
  /\ started = 0
  /\ marked = NoMarks
  /\ disk = InitDisk
  /\ task = [p \in Procs |-> IdleTask]

CallSelect(p) ==
  /\ Head1(p) = "idle"
  /\ started = 0
  /\ started' = 1
  /\ Put(p, [IdleTask EXCEPT !.kind = "select",
                             !.pc = <<"sel_readTokens", "returned">>,
                             !.pre = [tokens |-> tokens, rr |-> rr]])
  /\ UNCHANGED <<disk, marked, tokens, rr, now, refreshing, issued>>

CallAdvance(p) ==
  /\ Head1(p) = "idle"
  /\ started = 0
  /\ started' = 1
  /\ Put(p, [IdleTask EXCEPT !.kind = "advance",
                             !.pc = <<"adv_readTokens", "returned">>,
                             !.pre = [tokens |-> tokens, rr |-> rr]])
  /\ UNCHANGED <<disk, marked, tokens, rr, now, refreshing, issued>>

NextSelect ==
  \/ CallSelect(1) \/ CallAdvance(1)
  \/ Select(1) \/ Advance(1) \/ Update(1)

SpecSelect == InitSelect /\ [][NextSelect]_vars

\* The account sequence and the cursor a returned call saw, and its result.
Returned(kind) == task[1].kind = kind /\ Head1(1) = "returned"

\* C1: select() returns a usable account whenever the sequence it read holds
\* one, and returns empty only when it holds none (an empty sequence
\* included).
C1_SelectReturnsUsable ==
  Returned("select") =>
    LET tk == task[1]
        toks == tk.pre.tokens
    IN /\ SomeUsable(toks, tk.selAt) =>
            /\ tk.sel.rec # NoRec
            /\ usable(tk.sel.rec, tk.selAt)
            /\ tk.sel.index \in 0..(Len(toks) - 1)
            /\ At(toks, tk.sel.index).id = tk.sel.rec.id
            /\ usable(At(toks, tk.sel.index), tk.selAt)
       /\ tk.sel.rec = NoRec => ~SomeUsable(toks, tk.selAt)

C1_Witness ==
  /\ Returned("select")
  /\ task[1].sel.rec # NoRec
  /\ task[1].sel.index # clampStart(task[1].pre.rr, Len(task[1].pre.tokens))
  /\ \E i \in 1..Len(tokens) : ~usable(tokens[i], now)

\* C2: when the account at the cursor is usable, select() returns it, the
\* cursor file is as it was, and the accounts file differs from what it was
\* in that account's last_used only.
C2_SelectSticky ==
  Returned("select") =>
    LET tk == task[1]
        toks == tk.pre.tokens
        c == clampStart(tk.pre.rr, Len(toks))
    IN (Len(toks) > 0 /\ usable(At(toks, c), tk.selAt)) =>
         /\ tk.sel.rec.id = At(toks, c).id
         /\ tk.sel.index = c
         /\ rr = tk.pre.rr
         /\ tokens = [toks EXCEPT ![c + 1].last_used = tk.selAt]
         /\ tk.sel.rec = At(tokens, c)

C2_Witness ==
  /\ Returned("select")
  /\ Len(tokens) > 1
  /\ task[1].pre.rr = 1
  /\ task[1].sel.index = 1
  /\ rr = 1
  /\ tokens[2].last_used = now
  /\ usable(tokens[1], now)

\* C3, as claimed: advance() moves the cursor to another index whenever an
\* account other than the one at the stored cursor is usable, and returns the
\* first usable account in the order cursor+1, cursor+2, ... modulo N from
\* the stored cursor; with no usable account it returns empty and the cursor
\* stays.
C3_AdvanceFromStoredCursor ==
  Returned("advance") =>
    LET tk == task[1]
        toks == tk.pre.tokens
        c == tk.pre.rr
    IN /\ (\E i \in 0..(Len(toks) - 1) : i # c /\ usable(At(toks, i), tk.selAt))
            => /\ rr # c
               /\ tk.sel.rec # NoRec
               /\ rr = tk.sel.index
               /\ FirstUsableAfter(toks, c, tk.sel.index, tk.selAt)
       /\ ~SomeUsable(toks, tk.selAt) => (tk.sel.rec = NoRec /\ rr = c)

\* C3, amended: the order starts after the cursor as advance() reads it, the
\* stored cursor when it is a position of the sequence and 0 otherwise.
C3_AdvanceFromClampedCursor ==
  Returned("advance") =>
    LET tk == task[1]
        toks == tk.pre.tokens
        c == tk.pre.rr
        start == IF c >= 0 /\ c < Len(toks) THEN c ELSE 0
    IN /\ (\E i \in 0..(Len(toks) - 1) : i # c /\ usable(At(toks, i), tk.selAt))
            => /\ rr # c
               /\ tk.sel.rec # NoRec
               /\ rr = tk.sel.index
               /\ tk.sel.rec.id = At(toks, tk.sel.index).id
               /\ FirstUsableAfter(toks, start, tk.sel.index, tk.selAt)
       /\ ~SomeUsable(toks, tk.selAt) => (tk.sel.rec = NoRec /\ rr = c)

C3_Witness ==
  /\ Returned("advance")
  /\ Len(tokens) = 2
  /\ task[1].pre.rr = 3
  /\ usable(task[1].pre.tokens[1], now)
  /\ rr = 1
  /\ task[1].sel.rec.id = 2

----------------------------------------------------------------------------
(* SpecRefreshFail: refreshes of one account whose stored failure state is *)
(* any of fail_count 0..MaxFail with or without an earlier cooldown; the   *)
(* token endpoint answers 2xx or any of RefreshCodes.                      *)

RefreshCodes == {400, 401, 403, 408, 429, 500, 502, 503, 504}

\* a cooldown that ended before the refresh
Earlier == 5 * 60 * 1000

RefreshFailStores ==
  { << [OAuth(1) EXCEPT !.fail_count = f, !.cooldown_until = cd] >> :
       f \in 0..MaxFail, cd \in {None, Earlier} }

InitRefreshFail ==
  /\ tokens \in RefreshFailStores
  /\ rr = 0
  /\ now = T0
  /\ refreshing = {}
  /\ issued = 0
  /\ started = 0
  /\ marked = NoMarks
  /\ disk = InitDisk
  /\ task = [p \in Procs |-> IdleTask]

NextRefreshFail ==
  \/ StartForceRefresh(1, {1})
  \/ ForceRefresh(1)
  \/ RfFetchFail(1, RefreshCodes)
  \/ RfFetchOk(1, {TRUE}, {3600})
  \/ RfFinally(1)
  \/ Update(1)

SpecRefreshFail == InitRefreshFail /\ [][NextRefreshFail]_vars

Minute == 60 * 1000

\* C20: a refresh the token endpoint answered non-2xx (code c) returns no
\* renewed account and stores the record it was called with changed in three
\* fields only: fail_count one more (f), last_error_code c, and
\* cooldown_until now + 30 min for 429, now + 10 min for 401 and 403,
\* now + min(30 min, 2^min(f,5) min) for 408 and the 5xx codes, unchanged
\* for any other code; never now + 3 hours.
C20_RefreshFailurePolicy ==
  (Head1(1) = "rf_finally" /\ task[1].json = NoJson) =>
    LET old == task[1].rec
        new == Stored(old.id)
        c == new.last_error_code
        f == old.fail_count + 1
    IN /\ task[1].refreshed = NoRec
       /\ c \in RefreshCodes
       /\ new.fail_count = f
       /\ new.cooldown_until =
            CASE c = 429 -> now + 30 * Minute
              [] c \in {401, 403} -> now + 10 * Minute
              [] c \in {408, 500, 502, 503, 504} ->
                   now + Min(30 * Minute, (2 ^ Min(f, 5)) * Minute)
              [] OTHER -> old.cooldown_until
       /\ new.cooldown_until # now + ThreeHours
       /\ new = [old EXCEPT !.fail_count = f, !.last_error_code = c,
                            !.cooldown_until = new.cooldown_until]

\* the sixth failure in a row, a 503: the backoff is capped at 30 minutes
C20_Witness ==
  /\ Head1(1) = "rf_finally"
  /\ task[1].json = NoJson
  /\ task[1].rec.fail_count = 5
  /\ Stored(1).fail_count = 6
  /\ Stored(1).last_error_code = 503
  /\ Stored(1).cooldown_until = now + 30 * Minute

----------------------------------------------------------------------------
(* converters.ts: tool names.  A name is the sequence of its characters.   *)

limit == 64

Rep(c, n) == [i \in 1..n |-> c]

\* String.prototype.slice(a, b), startsWith and lastIndexOf (0-based).
slice(s, a, b) == SubSeq(s, a + 1, Min(b, Len(s)))

startsWith(s, pre) == Len(s) >= Len(pre) /\ SubSeq(s, 1, Len(pre)) = pre

lastIndexOf(s, pat) ==
  LET hits == {i \in 0..(Len(s) - Len(pat)) :
                 SubSeq(s, i + 1, i + Len(pat)) = pat}
  IN IF hits = {} THEN 0 - 1
     ELSE CHOOSE i \in hits : \A j \in hits : j <= i

mcp__ == <<"m", "c", "p", "_", "_">>

shortenNameIfNeeded(name) ==
  IF Len(name) <= limit THEN name
  ELSE IF startsWith(name, mcp__) /\ lastIndexOf(name, <<"_", "_">>) > 0
       THEN slice(mcp__ \o slice(name, lastIndexOf(name, <<"_", "_">>) + 2,
                                 Len(name)), 0, limit)
  ELSE slice(name, 0, limit)

\* The copy of the same rule inside buildShortNameMap.
baseCandidate(n) ==
  IF Len(n) <= limit THEN n
  ELSE IF startsWith(n, mcp__) /\ lastIndexOf(n, <<"_", "_">>) > 0
       THEN slice(mcp__ \o slice(n, lastIndexOf(n, <<"_", "_">>) + 2,
                                 Len(n)), 0, limit)
  ELSE slice(n, 0, limit)

\* '~' + i: the decimal digits of i.
Digit(d) == <<"0", "1", "2", "3", "4", "5", "6", "7", "8", "9">>[d + 1]

RECURSIVE decimal(_)
decimal(i) ==
  IF i < 10 THEN <<Digit(i)>> ELSE decimal(i \div 10) \o <<Digit(i % 10)>>

constructor == <<"c", "o", "n", "s", "t", "r", "u", "c", "t", "o", "r">>

\* used is a plain object ({}): used[k] is truthy for the keys the map set
\* and for every key Object.prototype defines; of those the names below
\* contain "constructor".
ObjectPrototypeKeys == {constructor}

usedHas(used, k) == k \in used \/ k \in ObjectPrototypeKeys

RECURSIVE makeUniqueFrom(_, _, _)
makeUniqueFrom(used, base, i) ==
  LET suffix == <<"~">> \o decimal(i)
      allowed == IF limit - Len(suffix) > 0 THEN limit - Len(suffix) ELSE 0
      tmp == (IF Len(base) > allowed THEN slice(base, 0, allowed) ELSE base)
               \o suffix
  IN IF ~usedHas(used, tmp) THEN tmp ELSE makeUniqueFrom(used, base, i + 1)

makeUnique(used, cand) ==
  IF ~usedHas(used, cand) THEN cand ELSE makeUniqueFrom(used, cand, 1)

\* for (const n of names) { used[uniq] = true; map[n] = uniq }
RECURSIVE buildFrom(_, _, _, _)
buildFrom(names, k, used, map) ==
  IF k > Len(names) THEN map
  ELSE LET n == names[k]
           uniq == makeUnique(used, baseCandidate(n))
       IN buildFrom(names, k + 1, used \cup {uniq},
                    [x \in (DOMAIN map) \cup {n} |->
                       IF x = n THEN uniq ELSE map[x]])

buildShortNameMap(names) == buildFrom(names, 1, {}, <<>>)

\* convertChatCompletionsToResponses, the names of out.tools.
outTools(tools) ==
  LET originalToolNameMap ==
        IF Len(tools) > 0 THEN buildShortNameMap(tools) ELSE <<>>
  IN [i \in 1..Len(tools) |->
        IF tools[i] \in DOMAIN originalToolNameMap
        THEN originalToolNameMap[tools[i]]
        ELSE shortenNameIfNeeded(tools[i])]

\* map[short] = name for each tool in turn: a later tool with the same
\* short name replaces an earlier one.
buildReverseMapFromOpenAI(tools) ==
  [short \in {shortenNameIfNeeded(tools[i]) : i \in 1..Len(tools)} |->
     tools[CHOOSE i \in 1..Len(tools) :
             /\ shortenNameIfNeeded(tools[i]) = short
             /\ \A j \in 1..Len(tools) :
                  shortenNameIfNeeded(tools[j]) = short => j <= i]]

\* revMap[nameShort] || nameShort.  (The names sent upstream are never a key
\* of Object.prototype: makeUnique returns no name used[] is truthy for.)
deshorten(revMap, nameShort) ==
  IF nameShort \in DOMAIN revMap THEN revMap[nameShort] ELSE nameShort

\* The chat route converts the payload.
ChConvert(p) ==
  /\ task[p].chat.stage = "request"
  /\ Put(p, [task[p] EXCEPT !.chat.stage = "sent",
                            !.chat.sent = outTools(task[p].chat.tools)])
  /\ UNCHANGED <<tokens, rr, now, refreshing, issued, started, marked, disk>>

\* The upstream calls tool i by the name the request gave it.  The stream
\* branch of the route hands mapResponsesLineToChat an empty revMap;
\* convertResponsesBlobToChat builds its map from the original payload.
ChFunctionCall(p, i, stream) ==
  /\ task[p].chat.stage = "sent"
  /\ i \in 1..Len(task[p].chat.sent)
  /\ LET nameShort == task[p].chat.sent[i]
         rev == IF stream THEN <<>>
                ELSE buildReverseMapFromOpenAI(task[p].chat.tools)
     IN Put(p, [task[p] EXCEPT !.chat.stage = "emitted",
                               !.chat.called = i,
                               !.chat.stream = stream,
                               !.chat.name = deshorten(rev, nameShort)])
  /\ UNCHANGED <<tokens, rr, now, refreshing, issued, started, marked, disk>>

----------------------------------------------------------------------------
(* SpecNames: one chat request with up to MaxTools distinct tool names, its *)
(* conversion and one function_call of the upstream.                        *)

A64 == Rep("a", limit)

NamePool ==
  { A64,
    A64 \o <<"b">>,
    A64 \o <<"c">>,
    Rep("a", limit - 2) \o <<"~", "1">>,
    mcp__ \o Rep("x", limit - 6) \o <<"_", "_", "t">>,
    mcp__ \o Rep("y", limit - 6) \o <<"_", "_", "t">>,
    mcp__ \o <<"t">>,
    <<"t">>,
    constructor }

Distinct(names) ==
  \A i, j \in 1..Len(names) : names[i] = names[j] => i = j

InitNames ==
  /\ tokens = <<>>
  /\ rr = 0
  /\ now = T0
  /\ refreshing = {}
  /\ issued = 0
  /\ started = 0
  /\ marked = NoMarks
  /\ disk = InitDisk
  /\ \E n \in 1..MaxTools : \E names \in [1..n -> NamePool] :
       /\ Distinct(names)
       /\ task = [p \in Procs |->
                    IF p = 1
                    THEN [IdleTask EXCEPT !.chat.stage = "request",
                                          !.chat.tools = names]
                    ELSE IdleTask]

NextNames ==
  \/ ChConvert(1)
  \/ \E i \in 1..MaxTools : \E stream \in BOOLEAN : ChFunctionCall(1, i, stream)

SpecNames == InitNames /\ [][NextNames]_vars

\* C29: the names buildShortNameMap gives a list of distinct names are
\* distinct, none is longer than 64 characters, and a name of at most 64
\* characters is given itself.
C29_ShortNameMap ==
  LET names == task[1].chat.tools
      sent == task[1].chat.sent
  IN task[1].chat.stage = "sent" =>
       /\ \A i, j \in 1..Len(names) : sent[i] = sent[j] => i = j
       /\ \A i \in 1..Len(names) : Len(sent[i]) <= limit
       /\ \A i \in 1..Len(names) : Len(names[i]) <= limit => sent[i] = names[i]

\* C28: the name an upstream function_call carries for a tool of the request
\* reaches the caller as that tool's original name, with and without stream.
C28_ToolNameRoundTrip ==
  task[1].chat.stage = "emitted" =>
     task[1].chat.name = task[1].chat.tools[task[1].chat.called]

----------------------------------------------------------------------------
(* proxy.ts, converters.ts: the stream of a chat request.  The body of the *)
(* upstream is a sequence of pieces of text: a newline, the text of an     *)
(* event: line, the prefix "data: " and the JSON text of an event.         *)

Piece(c, type, delta) == [c |-> c, type |-> type, delta |-> delta]

NL == Piece("\n", "none", 0)

EventLine == Piece("event: ", "none", 0)

DataPrefix == Piece("data: ", "none", 0)

\* The JSON text of an event of a type; delta tells the events of a stream
\* apart.
EventJson(type, delta) == Piece("json", type, delta)

\* buf.split(/\n\n/)
RECURSIVE split(_)
split(s) ==
  LET hits == {i \in 1..(Len(s) - 1) : s[i] = NL /\ s[i + 1] = NL}
  IN IF hits = {} THEN <<s>>
     ELSE LET i == CHOOSE h \in hits : \A g \in hits : h <= g
          IN <<SubSeq(s, 1, i - 1)>> \o split(SubSeq(s, i + 2, Len(s)))

\* String.prototype.trim
RECURSIVE trim(_)
trim(s) ==
  IF s = <<>> THEN s
  ELSE IF Head(s) = NL THEN trim(Tail(s))
  ELSE IF s[Len(s)] = NL THEN trim(SubSeq(s, 1, Len(s) - 1))
  ELSE s

Undefined == [object |-> "undefined", content |-> 0, reasoning_content |-> 0,
              tool_calls |-> 0 - 1, finish_reason |-> "null"]

\* delta.content and delta.reasoning_content: 0 when the key is absent,
\* the event's delta otherwise, NewLines for '\n\n'; tool_calls: the index
\* of the call, -1 when the key is absent.
NewLines == 0 - 2

base ==
  [object |-> "chat.completion.chunk", content |-> 0, reasoning_content |-> 0,
   tool_calls |-> 0 - 1, finish_reason |-> "null"]

\* The chunk, and state.fnIdx after the call.  JSON.parse takes the text
\* after the prefix when it is the text of one event and nothing else.
mapResponsesLineToChat(evtLine, fnIdx) ==
  IF evtLine = <<>> \/ Head(evtLine) # DataPrefix
    THEN [chunk |-> Undefined, fnIdx |-> fnIdx]
  ELSE IF Len(evtLine) # 2 \/ evtLine[2].c # "json"
    THEN [chunk |-> Undefined, fnIdx |-> fnIdx]
  ELSE LET evt == evtLine[2] IN
    CASE evt.type = "response.reasoning_summary_text.delta" ->
           [chunk |-> [base EXCEPT !.reasoning_content = evt.delta],
            fnIdx |-> fnIdx]
      [] evt.type = "response.reasoning_summary_text.done" ->
           [chunk |-> [base EXCEPT !.reasoning_content = NewLines],
            fnIdx |-> fnIdx]
      [] evt.type = "response.output_text.delta" ->
           [chunk |-> [base EXCEPT !.content = evt.delta], fnIdx |-> fnIdx]
      [] evt.type = "response.output_item.done" ->
           [chunk |-> [base EXCEPT !.tool_calls = fnIdx + 1],
            fnIdx |-> fnIdx + 1]
      [] evt.type = "response.completed" ->
           [chunk |-> [base EXCEPT !.finish_reason =
                         IF fnIdx >= 0 THEN "tool_calls" ELSE "stop"],
            fnIdx |-> fnIdx]
      [] OTHER -> [chunk |-> Undefined, fnIdx |-> fnIdx]

\* text: delta.content ?? '' (0: the empty text)
convertChatChunkToCompletionsChunk(chunk) ==
  [object |-> "text_completion", text |-> chunk.content,
   finish_reason |-> chunk.finish_reason]

\* for (const p of parts) { ... controller.enqueue(...) }
RECURSIVE forParts(_, _, _)
forParts(parts, fnIdx, out) ==
  IF parts = <<>> THEN [fnIdx |-> fnIdx, out |-> out]
  ELSE LET s == trim(Head(parts))
           mapped == mapResponsesLineToChat(s, fnIdx)
       IN IF s = <<>> THEN forParts(Tail(parts), fnIdx, out)
          ELSE IF mapped.chunk = Undefined
            THEN forParts(Tail(parts), mapped.fnIdx, out)
          ELSE forParts(Tail(parts), mapped.fnIdx,
                 Append(out, convertChatChunkToCompletionsChunk(mapped.chunk)))

\* reader.read() gives the next k pieces of the body; the loop splits what
\* it has, keeps the last part as buf and rewrites the others.
SseRead(p, k) ==
  /\ task[p].chat.stage = "streaming"
  /\ k \in 1..Len(task[p].chat.up)
  /\ LET ch == task[p].chat
         all == ch.buf \o SubSeq(ch.up, 1, k)
         parts == split(all)
         done == forParts(SubSeq(parts, 1, Len(parts) - 1), ch.fnIdx, ch.out)
     IN Put(p, [task[p] EXCEPT
                  !.chat.up = SubSeq(ch.up, k + 1, Len(ch.up)),
                  !.chat.buf = parts[Len(parts)],
                  !.chat.fnIdx = done.fnIdx,
                  !.chat.out = done.out])
  /\ UNCHANGED <<tokens, rr, now, refreshing, issued, started, marked, disk>>

\* reader.read() gives done: break, controller.close()
SseDone(p) ==
  /\ task[p].chat.stage = "streaming"
  /\ task[p].chat.up = <<>>
  /\ Put(p, [task[p] EXCEPT !.chat.stage = "closed"])
  /\ UNCHANGED <<tokens, rr, now, refreshing, issued, started, marked, disk>>

----------------------------------------------------------------------------
(* SpecSSE: the 2xx body of one streaming chat request, of up to           *)
(* MaxRecords records, read in pieces of any size.                         *)

EventTypes ==
  { "response.reasoning_summary_text.delta",
    "response.reasoning_summary_text.done",
    "response.output_text.delta",
    "response.output_item.done",
    "response.completed",
    "response.created" }

\* A record of the body: an event: line or none, then the data: line.
Records == [ev : BOOLEAN, type : EventTypes]

\* The body: the records, a blank line after each; after the last one only
\* when terminated.
RECURSIVE Wire(_, _, _)
Wire(src, i, terminated) ==
  IF i > Len(src) THEN <<>>
  ELSE (IF src[i].ev THEN <<EventLine, NL>> ELSE <<>>)
       \o <<DataPrefix, EventJson(src[i].type, i)>>
       \o (IF i < Len(src) \/ terminated THEN <<NL, NL>> ELSE <<>>)
       \o Wire(src, i + 1, terminated)

InitSSE ==
  /\ tokens = <<>>
  /\ rr = 0
  /\ now = T0
  /\ refreshing = {}
  /\ issued = 0
  /\ started = 0
  /\ marked = NoMarks
  /\ disk = InitDisk
  /\ \E n \in 1..MaxRecords : \E src \in [1..n -> Records] :
     \E terminated \in BOOLEAN :
       task = [p \in Procs |->
                 IF p = 1
                 THEN [IdleTask EXCEPT !.chat.stage = "streaming",
                                       !.chat.stream = TRUE,
                                       !.chat.src = src,
                                       !.chat.up = Wire(src, 1, terminated)]
                 ELSE IdleTask]

NextSSE ==
  \/ \E k \in 1..Len(task[1].chat.up) : SseRead(1, k)
  \/ SseDone(1)

SpecSSE == InitSSE /\ [][NextSSE]_vars

\* The chunks of the events of src from the i-th on, each event's data: line
\* translated on its own, in order.
RECURSIVE Translations(_, _, _)
Translations(src, i, fnIdx) ==
  IF i > Len(src) THEN <<>>
  ELSE LET mapped ==
             mapResponsesLineToChat(<<DataPrefix, EventJson(src[i].type, i)>>,
                                    fnIdx)
       IN (IF mapped.chunk = Undefined THEN <<>>
           ELSE <<convertChatChunkToCompletionsChunk(mapped.chunk)>>)
          \o Translations(src, i + 1, mapped.fnIdx)

\* C27: when the stream is closed, the chunks sent downstream are the
\* translations of the upstream's events of the enumerated types, one per
\* event and in the upstream's order, however the body was cut into reads,
\* with or without an event: line before the data: line and with or
\* without a blank line after the last record.
C27_StreamLossless ==
  task[1].chat.stage = "closed" =>
     task[1].chat.out = Translations(task[1].chat.src, 1, 0 - 1)

----------------------------------------------------------------------------
(* storage.ts: Mutex.  lock(fn) chains fn behind this.q, the promise of the *)
(* lock call before it, and makes the settling of fn the new this.q.  A     *)
(* call is named by its number; log holds what a task's calls settled as.   *)

FileOf(op) ==
  IF op \in {"readTokens", "writeTokens"} THEN "codex_tokens.json"
  ELSE "rr-index"

Log == UNION {task[p].log : p \in Procs}

\* The calls of lock on the mutex of filePath whose run has settled; 0 is
\* the Promise.resolve() the mutex is made with.
Settled(filePath) == {0} \cup {e.ticket : e \in {x \in Log : x.path = filePath}}

\* this.q: the last call of lock on the mutex of filePath.
LastCall(filePath) ==
  LET calls == Settled(filePath) \cup
                 {task[p].arg : p \in {q \in Procs : /\ task[q].path = filePath
                                                     /\ task[q].pc # <<>>}}
  IN CHOOSE c \in calls : \A d \in calls : d <= c

\* const run = this.q.then(fn); this.q = run.then(...); return run
LockCall(p, op) ==
  /\ Head1(p) = "idle"
  /\ started < MaxOps
  /\ started' = started + 1
  /\ Put(p, [task[p] EXCEPT !.kind = op, !.path = FileOf(op),
                            !.arg = started + 1,
                            !.prev = LastCall(FileOf(op)),
                            !.sw = IF LastCall(FileOf(op))
                                      \in Settled(FileOf(op)) THEN 0 ELSE 1,
                            !.pc = <<"lk_then">>])
  /\ UNCHANGED <<disk, marked, tokens, rr, now, refreshing, issued>>

\* Variant: fn starts without waiting for this.q.
LockEnterNoWait(p) ==
  /\ Head1(p) = "lk_then"
  /\ Put(p, [task[p] EXCEPT !.pc =
               IF task[p].kind \in {"readTokens", "readRR"}
               THEN <<"cs_readFile">> ELSE <<"cs_writeFile">>])
  /\ UNCHANGED <<disk, marked, tokens, rr, now, refreshing, issued, started>>

\* this.q has settled: fn starts
LockEnter(p) ==
  /\ Head1(p) = "lk_then"
  /\ task[p].prev \in Settled(task[p].path)
  /\ Put(p, [task[p] EXCEPT !.pc =
               IF task[p].kind \in {"readTokens", "readRR"}
               THEN <<"cs_readFile">> ELSE <<"cs_writeFile">>])
  /\ UNCHANGED <<disk, marked, tokens, rr, now, refreshing, issued, started>>

\* fn has settled: run settles, and with it the this.q of the next call.
Settle(p, ok_, got) ==
  Put(p, [IdleTask EXCEPT !.log = task[p].log \cup
            {[ticket |-> task[p].arg, path |-> task[p].path,
              op |-> task[p].kind, ok |-> ok_, got |-> got,
              queued |-> task[p].sw = 1]}])

\* readTokens / readRR: await fs.readFile(file), and the return
CsReadFile(p) ==
  /\ Head1(p) = "cs_readFile"
  /\ Settle(p, TRUE, disk[task[p].path])
  /\ UNCHANGED <<disk, marked, tokens, rr, now, refreshing, issued, started>>

\* writeTokens / writeRR: await fs.writeFile(tmp, content)
CsWriteFile(p) ==
  /\ Head1(p) = "cs_writeFile"
  /\ disk' = [disk EXCEPT ![tmpPath(task[p].path)] =
                             Whole(task[p].path, task[p].arg)]
  /\ Put(p, [task[p] EXCEPT !.pc = <<"cs_rename">>])
  /\ UNCHANGED <<marked, tokens, rr, now, refreshing, issued, started>>

\* await fs.rename(tmp, filePath), and the return
CsRename(p) ==
  /\ Head1(p) = "cs_rename"
  /\ LET tmp == tmpPath(task[p].path)
     IN disk' = [path \in Paths |->
                   IF path = task[p].path THEN disk[tmp]
                   ELSE IF path = tmp THEN <<>>
                   ELSE disk[path]]
  /\ Settle(p, TRUE, <<>>)
  /\ UNCHANGED <<marked, tokens, rr, now, refreshing, issued, started>>

\* Variant: a rejected run does not settle this.q.
CsThrowHolds(p) ==
  /\ Head1(p) \in {"cs_writeFile", "cs_rename"}
  /\ Put(p, [IdleTask EXCEPT !.log = task[p].log])
  /\ UNCHANGED <<disk, marked, tokens, rr, now, refreshing, issued, started>>

\* fs.writeFile or fs.rename rejects: fn throws, run is rejected
CsThrow(p) ==
  /\ Head1(p) \in {"cs_writeFile", "cs_rename"}
  /\ Settle(p, FALSE, <<>>)
  /\ UNCHANGED <<disk, marked, tokens, rr, now, refreshing, issued, started>>

----------------------------------------------------------------------------
(* SpecMutex: up to MaxOps calls of readTokens, writeTokens, readRR and     *)
(* writeRR by two tasks; a write can fail.  A call that can go on does.     *)

StoreOps == {"readTokens", "writeTokens", "readRR", "writeRR"}

InitMutex ==
  /\ tokens = <<>>
  /\ rr = 0
  /\ now = 0
  /\ refreshing = {}
  /\ issued = 0
  /\ started = 0
  /\ marked = NoMarks
  /\ disk = InitDisk
  /\ task = [p \in Procs |-> IdleTask]

Critical(p) ==
  LockEnter(p) \/ CsReadFile(p) \/ CsWriteFile(p) \/ CsRename(p) \/ CsThrow(p)

NextMutex ==
  \E p \in Procs : (\E op \in StoreOps : LockCall(p, op)) \/ Critical(p)

SpecMutex ==
  InitMutex /\ [][NextMutex]_vars /\ \A p \in Procs : WF_vars(Critical(p))

InSection(p) == Head1(p) \in {"cs_readFile", "cs_writeFile", "cs_rename"}

\* The content of filePath a call numbered k is to find: that of the last
\* write before it that was not rejected, the initial content when none.
Latest(filePath, k) ==
  LET ws == {0} \cup
              {e.ticket : e \in {x \in Log : /\ x.path = filePath
                                            /\ x.op \in {"writeTokens", "writeRR"}
                                            /\ x.ok
                                            /\ x.ticket < k}}
  IN Whole(filePath, CHOOSE w \in ws : \A v \in ws : v <= w)

C35_LockGranted ==
  /\ [](\A p \in Procs :
          \A i \in 1..Len(task[p].pc) :
            task[p].pc[i] \in {"lk_then", "cs_readFile", "cs_writeFile",
                               "cs_rename"} => Len(task[p].pc) = 1)
  /\ [][\A p \in Procs :
          (InSection(p) /\ task'[p].pc = <<>>) =>
             \A t \in {task[p].arg}, f \in {task[p].path} :
                t \in Settled(f)']_vars
  /\ \A p \in Procs : (Head1(p) = "lk_then") ~> InSection(p)

\* a call queued behind a write that was rejected is running
C35_Witness ==
  \E p \in Procs :
    /\ InSection(p)
    /\ task[p].sw = 1
    /\ \E e \in Log : e.ticket = task[p].prev /\ ~e.ok /\ e.path = task[p].path

====
